---- MODULE Spec2Model ----
(***************************************************************************)
(* Force-subscribe gating engine of fsubasp: target parser, visibility     *)
(* selector, membership verifier, the gate handlers of app.py and the      *)
(* rotation-state / skip-statistics store of storage.py.                   *)
(*                                                                         *)
(* Strings the code takes apart (target descriptors) are sequences of      *)
(* one-character strings; every other string is an atomic value.           *)
(*                                                                         *)
(* app.py is written against names that fsub.py and storage.py spell       *)
(* differently or do not have:                                             *)
(*   visible_targets_for_user, split_target  are bound to                  *)
(*       fsub._pick_visible_for_user, fsub._split_target;                  *)
(*   st.last_gate_key, STORE.set_last_gate_key  have no definition in      *)
(*       storage.py and are modelled from the specification (gate_keys,    *)
(*       LastGateKey, set_last_gate_key);                                  *)
(*   build_join_keyboard is called without rotate_callback_data; the       *)
(*       rotate button carries the value NoData.                           *)
(***************************************************************************)
EXTENDS Integers, Sequences, FiniteSets, TLC

VARIABLES
    force_sub_targets,  \* CFG.force_sub_targets: list of raw target strings
    max_join_buttons,   \* CFG.max_join_buttons
    buttons_per_row,    \* CFG.buttons_per_row
    backend,            \* CFG.storage_backend: "sqlite" or "mongo"
    user_state,         \* table user_fsub_state: user_id -> [offset, last_rotated_ts]
    gate_keys,          \* last_gate_key per user
    skip_stats,         \* table fsub_skip_stats: check_chat -> skips
    files,              \* table files: file_id -> [db_chat_id, db_message_id]
    links,              \* table links: code -> file_id
    now,                \* int(time.time())
    gates,              \* gate messages standing in the users' chats (messages
                        \* of a user with the same keyboard are one element)
    ev,                 \* what the last handler run did
    nEv,                \* number of handler runs so far
    pc,                 \* per storage caller: position inside its storage call
    loc,                \* per storage caller: local variables of the call
    bumps,              \* per user: bump_rotate calls that have returned
    sel,                \* the calls of the pure functions made so far
    incs,               \* per check_chat: inc_skip calls that have returned
    hist,               \* per user: gate key and keyboard of the latest
                        \* Enter gate, and whether a Done has released the
                        \* user since
    post_channel_ids,   \* POST_CHANNEL_IDS
    sessions,           \* per user: context.user_data["post_sessions"],
                        \* token -> [chat_id, msg_id, sel]
    posted              \* per token issued: its user, and per channel the
                        \* number of times the media was copied to it

vars == <<force_sub_targets, max_join_buttons, buttons_per_row, backend,
          user_state, gate_keys, skip_stats, files, links, now, gates, ev,
          nEv, pc, loc, bumps, sel, incs, hist, post_channel_ids, sessions,
          posted>>

cfgVars == <<force_sub_targets, max_join_buttons, buttons_per_row, backend,
             post_channel_ids>>
storeVars == <<user_state, gate_keys, skip_stats, files, links>>
callerVars == <<pc, loc, bumps, incs>>
postVars == <<sessions, posted>>

-----------------------------------------------------------------------------
(* Bounds *)

MaxTargets == 3
MaxK == 2
MaxEvents == 3
MaxTime == 2
MaxCalls == 3
NumCallers == 2
MaxSelCalls == 3
MaxSelOffset == 1
MaxSplitLen == 3

-----------------------------------------------------------------------------
(* Values *)

Users == {1, 2}
FileIds == {"F1", "F2", "F3"}
Codes == {"c1", "c2", "c3"}
NONE == "__none__"
NoData == "no_data"
None == "None"
NoUrl == <<"None">>
NoRec == [db_chat_id |-> 0, db_message_id |-> 0]
NoCopy == <<>>
NoGate == <<>>
Status == {"member", "left", "kicked", "error"}

\* raw FORCE_SUB<i> values, one of each shape _split_target distinguishes
TargetPool ==
    << <<"@", "a">>,
       <<"-", "1", " ", "|", " ", "u">>,
       <<"-", "2">>,
       <<"@", "b">>,
       <<"-", "3", "|", "v">> >>

Min(a, b) == IF a < b THEN a ELSE b
Max(a, b) == IF a > b THEN a ELSE b

-----------------------------------------------------------------------------
(* fsub.py *)

IsSpace(c) == c = " "

RECURSIVE lstrip(_)
lstrip(s) == IF s # <<>> /\ IsSpace(Head(s)) THEN lstrip(Tail(s)) ELSE s

RECURSIVE rstrip(_)
rstrip(s) ==
    IF s # <<>> /\ IsSpace(s[Len(s)]) THEN rstrip(SubSeq(s, 1, Len(s) - 1)) ELSE s

strip(s) == rstrip(lstrip(s))

RECURSIVE lstripAt(_)
lstripAt(s) == IF s # <<>> /\ Head(s) = "@" THEN lstripAt(Tail(s)) ELSE s

\* index of the last "|" in s (rsplit in place of split)
RECURSIVE findBar_last(_, _)
findBar_last(s, i) ==
    IF i > Len(s) THEN 0
    ELSE LET r == findBar_last(s, i + 1)
         IN  IF r # 0 THEN r ELSE IF s[i] = "|" THEN i ELSE 0

\* index of the first "|" in s, 0 when there is none
RECURSIVE findBar(_, _)
findBar(s, i) ==
    IF i > Len(s) THEN 0 ELSE IF s[i] = "|" THEN i ELSE findBar(s, i + 1)

_split_target(raw) ==
    LET s == strip(raw)
        p == findBar(s, 1)
    IN  IF p # 0
        THEN <<strip(SubSeq(s, 1, p - 1)), strip(SubSeq(s, p + 1, Len(s)))>>
        ELSE IF s # <<>> /\ Head(s) = "@"
        THEN <<s, <<"https://t.me/">> \o lstripAt(s)>>
        ELSE <<s, NoUrl>>

\* the answers of get_chat_member, in list order: ans[i] for targets[i].
\* Returns the verdict and the number of queries issued.
RECURSIVE joinedLoop_fail_open(_, _, _)
joinedLoop_fail_open(targets, ans, i) ==
    IF i > Len(targets) THEN [ok |-> TRUE, queried |-> Len(targets)]
    ELSE IF ans[i] \in {"left", "kicked"} THEN [ok |-> FALSE, queried |-> i]
    ELSE joinedLoop_fail_open(targets, ans, i + 1)

RECURSIVE joinedLoop_left_only(_, _, _)
joinedLoop_left_only(targets, ans, i) ==
    IF i > Len(targets) THEN [ok |-> TRUE, queried |-> Len(targets)]
    ELSE IF ans[i] = "error" THEN [ok |-> FALSE, queried |-> i]
    ELSE IF ans[i] = "left" THEN [ok |-> FALSE, queried |-> i]
    ELSE joinedLoop_left_only(targets, ans, i + 1)

RECURSIVE joinedLoop(_, _, _)
joinedLoop(targets, ans, i) ==
    IF i > Len(targets) THEN [ok |-> TRUE, queried |-> Len(targets)]
    ELSE IF ans[i] = "error" THEN [ok |-> FALSE, queried |-> i]
    ELSE IF ans[i] \in {"left", "kicked"} THEN [ok |-> FALSE, queried |-> i]
    ELSE joinedLoop(targets, ans, i + 1)

\* "if not targets: return False"
is_user_joined_all_empty_false(targets, ans) ==
    IF targets = <<>> THEN [ok |-> FALSE, queried |-> 0]
    ELSE joinedLoop(targets, ans, 1)

is_user_joined_all(targets, ans) ==
    IF targets = <<>> THEN [ok |-> TRUE, queried |-> 0]
    ELSE joinedLoop(targets, ans, 1)

RECURSIVE BitXor(_, _)
BitXor(a, b) ==
    IF a = 0 THEN b
    ELSE IF b = 0 THEN a
    ELSE (((a % 2) + (b % 2)) % 2) + 2 * BitXor(a \div 2, b \div 2)

Seed(user_id, offset, n) ==
    BitXor(BitXor(user_id * 1000003, offset * 9176), n)

\* random.Random(s): the values j = randbelow(i + 1) that shuffle() draws for
\* i = n-1 down to 1 on a list of length n (CPython's Mersenne Twister)
RandBelowDraws(s, n) ==
    CASE n = 0 -> <<>>
  [] s = 941184 /\ n = 3 -> <<1, 1>>
  [] s = 941185 /\ n = 2 -> <<1>>
  [] s = 941186 /\ n = 1 -> <<>>
  [] s = 941189 /\ n = 6 -> <<2, 2, 1, 1, 1>>
  [] s = 941190 /\ n = 5 -> <<4, 3, 1, 0>>
  [] s = 941191 /\ n = 4 -> <<0, 1, 1>>
  [] s = 984560 /\ n = 3 -> <<1, 1>>
  [] s = 984561 /\ n = 2 -> <<1>>
  [] s = 984562 /\ n = 1 -> <<>>
  [] s = 984565 /\ n = 6 -> <<0, 0, 3, 2, 1>>
  [] s = 984566 /\ n = 5 -> <<4, 3, 0, 1>>
  [] s = 984567 /\ n = 4 -> <<0, 2, 1>>
  [] s = 993736 /\ n = 3 -> <<2, 1>>
  [] s = 993737 /\ n = 2 -> <<1>>
  [] s = 993738 /\ n = 1 -> <<>>
  [] s = 993741 /\ n = 6 -> <<5, 0, 1, 0, 1>>
  [] s = 993742 /\ n = 5 -> <<4, 2, 1, 1>>
  [] s = 993743 /\ n = 4 -> <<1, 0, 1>>
  [] s = 1000000 /\ n = 3 -> <<0, 0>>
  [] s = 1000001 /\ n = 2 -> <<0>>
  [] s = 1000002 /\ n = 1 -> <<>>
  [] s = 1000005 /\ n = 6 -> <<2, 0, 0, 1, 1>>
  [] s = 1000006 /\ n = 5 -> <<2, 1, 1, 0>>
  [] s = 1000007 /\ n = 4 -> <<2, 0, 1>>
  [] s = 1008024 /\ n = 3 -> <<1, 1>>
  [] s = 1008025 /\ n = 2 -> <<0>>
  [] s = 1008026 /\ n = 1 -> <<>>
  [] s = 1008029 /\ n = 6 -> <<3, 2, 2, 0, 1>>
  [] s = 1008030 /\ n = 5 -> <<3, 0, 1, 1>>
  [] s = 1008031 /\ n = 4 -> <<1, 0, 0>>
  [] s = 1021264 /\ n = 3 -> <<2, 0>>
  [] s = 1021265 /\ n = 2 -> <<1>>
  [] s = 1021266 /\ n = 1 -> <<>>
  [] s = 1021269 /\ n = 6 -> <<1, 0, 2, 2, 1>>
  [] s = 1021270 /\ n = 5 -> <<0, 2, 1, 0>>
  [] s = 1021271 /\ n = 4 -> <<3, 2, 1>>
  [] s = 1030312 /\ n = 3 -> <<2, 0>>
  [] s = 1030313 /\ n = 2 -> <<0>>
  [] s = 1030314 /\ n = 1 -> <<>>
  [] s = 1030317 /\ n = 6 -> <<3, 3, 1, 1, 0>>
  [] s = 1030318 /\ n = 5 -> <<0, 1, 2, 0>>
  [] s = 1030319 /\ n = 4 -> <<0, 0, 1>>
  [] s = 1035552 /\ n = 3 -> <<0, 0>>
  [] s = 1035553 /\ n = 2 -> <<1>>
  [] s = 1035554 /\ n = 1 -> <<>>
  [] s = 1035557 /\ n = 6 -> <<4, 0, 3, 0, 0>>
  [] s = 1035558 /\ n = 5 -> <<2, 2, 2, 0>>
  [] s = 1035559 /\ n = 4 -> <<0, 1, 1>>
  [] s = 1044856 /\ n = 3 -> <<2, 0>>
  [] s = 1044857 /\ n = 2 -> <<1>>
  [] s = 1044858 /\ n = 1 -> <<>>
  [] s = 1044861 /\ n = 6 -> <<1, 1, 2, 1, 1>>
  [] s = 1044862 /\ n = 5 -> <<0, 0, 0, 0>>
  [] s = 1044863 /\ n = 4 -> <<1, 1, 0>>
  [] s = 1969120 /\ n = 6 -> <<5, 1, 0, 2, 1>>
  [] s = 1969122 /\ n = 4 -> <<1, 2, 1>>
  [] s = 1969123 /\ n = 5 -> <<4, 1, 2, 0>>
  [] s = 1969124 /\ n = 2 -> <<1>>
  [] s = 1969125 /\ n = 3 -> <<1, 1>>
  [] s = 1969127 /\ n = 1 -> <<>>
  [] s = 1980344 /\ n = 6 -> <<0, 1, 0, 1, 0>>
  [] s = 1980346 /\ n = 4 -> <<0, 0, 0>>
  [] s = 1980347 /\ n = 5 -> <<4, 3, 2, 1>>
  [] s = 1980348 /\ n = 2 -> <<0>>
  [] s = 1980349 /\ n = 3 -> <<2, 0>>
  [] s = 1980351 /\ n = 1 -> <<>>
  [] s = 1987472 /\ n = 6 -> <<1, 3, 0, 1, 1>>
  [] s = 1987474 /\ n = 4 -> <<1, 0, 1>>
  [] s = 1987475 /\ n = 5 -> <<2, 2, 0, 0>>
  [] s = 1987476 /\ n = 2 -> <<0>>
  [] s = 1987477 /\ n = 3 -> <<1, 0>>
  [] s = 1987479 /\ n = 1 -> <<>>
  [] s = 1998440 /\ n = 6 -> <<4, 2, 1, 2, 0>>
  [] s = 1998442 /\ n = 4 -> <<1, 0, 0>>
  [] s = 1998443 /\ n = 5 -> <<1, 3, 1, 1>>
  [] s = 1998444 /\ n = 2 -> <<1>>
  [] s = 1998445 /\ n = 3 -> <<1, 1>>
  [] s = 1998447 /\ n = 1 -> <<>>
  [] s = 2000000 /\ n = 6 -> <<4, 4, 0, 0, 0>>
  [] s = 2000002 /\ n = 4 -> <<0, 0, 0>>
  [] s = 2000003 /\ n = 5 -> <<4, 0, 0, 1>>
  [] s = 2000004 /\ n = 2 -> <<1>>
  [] s = 2000005 /\ n = 3 -> <<0, 1>>
  [] s = 2000007 /\ n = 1 -> <<>>
  [] s = 2008920 /\ n = 6 -> <<0, 0, 3, 0, 0>>
  [] s = 2008922 /\ n = 4 -> <<1, 1, 1>>
  [] s = 2008923 /\ n = 5 -> <<3, 1, 1, 0>>
  [] s = 2008924 /\ n = 2 -> <<1>>
  [] s = 2008925 /\ n = 3 -> <<1, 0>>
  [] s = 2008927 /\ n = 1 -> <<>>
  [] s = 2016048 /\ n = 6 -> <<0, 4, 2, 2, 1>>
  [] s = 2016050 /\ n = 4 -> <<1, 0, 0>>
  [] s = 2016051 /\ n = 5 -> <<0, 2, 0, 0>>
  [] s = 2016052 /\ n = 2 -> <<1>>
  [] s = 2016053 /\ n = 3 -> <<0, 1>>
  [] s = 2016055 /\ n = 1 -> <<>>
  [] s = 2027272 /\ n = 6 -> <<2, 4, 2, 2, 0>>
  [] s = 2027274 /\ n = 4 -> <<0, 1, 1>>
  [] s = 2027275 /\ n = 5 -> <<4, 2, 0, 1>>
  [] s = 2027276 /\ n = 2 -> <<0>>
  [] s = 2027277 /\ n = 3 -> <<0, 0>>
  [] s = 2027279 /\ n = 1 -> <<>>
  [] s = 2071104 /\ n = 6 -> <<3, 4, 3, 0, 1>>
  [] s = 2071106 /\ n = 4 -> <<2, 2, 1>>
  [] s = 2071107 /\ n = 5 -> <<2, 0, 2, 0>>
  [] s = 2071108 /\ n = 2 -> <<1>>
  [] s = 2071109 /\ n = 3 -> <<2, 0>>
  [] s = 2071111 /\ n = 1 -> <<>>
  [] s = 2938888 /\ n = 1 -> <<>>
  [] s = 2938890 /\ n = 3 -> <<2, 0>>
  [] s = 2938891 /\ n = 2 -> <<0>>
  [] s = 2938892 /\ n = 5 -> <<0, 3, 1, 1>>
  [] s = 2938893 /\ n = 4 -> <<3, 2, 1>>
  [] s = 2938895 /\ n = 6 -> <<0, 4, 0, 0, 1>>
  [] s = 2953688 /\ n = 1 -> <<>>
  [] s = 2953690 /\ n = 3 -> <<1, 0>>
  [] s = 2953691 /\ n = 2 -> <<0>>
  [] s = 2953692 /\ n = 5 -> <<1, 0, 1, 1>>
  [] s = 2953693 /\ n = 4 -> <<2, 0, 1>>
  [] s = 2953695 /\ n = 6 -> <<3, 2, 1, 1, 1>>
  [] s = 2964512 /\ n = 1 -> <<>>
  [] s = 2964514 /\ n = 3 -> <<2, 0>>
  [] s = 2964515 /\ n = 2 -> <<0>>
  [] s = 2964516 /\ n = 5 -> <<3, 3, 1, 0>>
  [] s = 2964517 /\ n = 4 -> <<1, 0, 1>>
  [] s = 2964519 /\ n = 6 -> <<4, 4, 1, 0, 1>>
  [] s = 2967976 /\ n = 1 -> <<>>
  [] s = 2967978 /\ n = 3 -> <<1, 1>>
  [] s = 2967979 /\ n = 2 -> <<0>>
  [] s = 2967980 /\ n = 5 -> <<1, 0, 0, 0>>
  [] s = 2967981 /\ n = 4 -> <<0, 2, 0>>
  [] s = 2967983 /\ n = 6 -> <<4, 2, 0, 2, 1>>
  [] s = 2979312 /\ n = 1 -> <<>>
  [] s = 2979314 /\ n = 3 -> <<2, 0>>
  [] s = 2979315 /\ n = 2 -> <<1>>
  [] s = 2979316 /\ n = 5 -> <<0, 2, 2, 1>>
  [] s = 2979317 /\ n = 4 -> <<0, 1, 1>>
  [] s = 2979319 /\ n = 6 -> <<4, 3, 2, 0, 1>>
  [] s = 2982264 /\ n = 1 -> <<>>
  [] s = 2982266 /\ n = 3 -> <<0, 0>>
  [] s = 2982267 /\ n = 2 -> <<0>>
  [] s = 2982268 /\ n = 5 -> <<3, 0, 1, 1>>
  [] s = 2982269 /\ n = 4 -> <<2, 1, 0>>
  [] s = 2982271 /\ n = 6 -> <<1, 3, 3, 0, 1>>
  [] s = 2993472 /\ n = 1 -> <<>>
  [] s = 2993474 /\ n = 3 -> <<1, 0>>
  [] s = 2993475 /\ n = 2 -> <<0>>
  [] s = 2993476 /\ n = 5 -> <<0, 3, 2, 1>>
  [] s = 2993477 /\ n = 4 -> <<2, 0, 1>>
  [] s = 2993479 /\ n = 6 -> <<5, 2, 2, 0, 1>>
  [] s = 3000008 /\ n = 1 -> <<>>
  [] s = 3000010 /\ n = 3 -> <<2, 1>>
  [] s = 3000011 /\ n = 2 -> <<0>>
  [] s = 3000012 /\ n = 5 -> <<4, 3, 2, 0>>
  [] s = 3000013 /\ n = 4 -> <<1, 0, 0>>
  [] s = 3000015 /\ n = 6 -> <<5, 2, 0, 0, 1>>
  [] s = 3007760 /\ n = 1 -> <<>>
  [] s = 3007762 /\ n = 3 -> <<2, 1>>
  [] s = 3007763 /\ n = 2 -> <<1>>
  [] s = 3007764 /\ n = 5 -> <<3, 1, 2, 1>>
  [] s = 3007765 /\ n = 4 -> <<1, 0, 0>>
  [] s = 3007767 /\ n = 6 -> <<4, 4, 1, 1, 1>>

Swap_overwrite(x, i, j) ==
    [p \in 1..Len(x) |-> IF p = i + 1 THEN x[j + 1] ELSE x[p]]

\* x[i], x[j] = x[j], x[i] on 0-based positions
Swap(x, i, j) ==
    [p \in 1..Len(x) |-> IF p = i + 1 THEN x[j + 1]
                         ELSE IF p = j + 1 THEN x[i + 1] ELSE x[p]]

\* for i in reversed(range(1, len(x))): j = randbelow(i + 1); swap
RECURSIVE shuffleLoop(_, _, _)
shuffleLoop(x, draws, d) ==
    IF d > Len(draws) THEN x
    ELSE shuffleLoop(Swap(x, Len(x) - d, draws[d]), draws, d + 1)

shuffle(x, s) == shuffleLoop(x, RandBelowDraws(s, Len(x)), 1)

_pick_visible_in_place(targets, user_id, offset, k0) ==
    IF targets = <<>> THEN [out |-> <<>>, targets |-> targets]
    ELSE LET k == Max(1, Min(k0, Len(targets)))
             seed == Seed(user_id, offset, Len(targets))
             arr == shuffle(targets, seed)
         IN  [out |-> SubSeq(arr, 1, k), targets |-> arr]

\* returns the slice and the list object `targets` as the call leaves it
_pick_visible_for_user(targets, user_id, offset, k0) ==
    IF targets = <<>> THEN [out |-> <<>>, targets |-> targets]
    ELSE LET k == Max(1, Min(k0, Len(targets)))
             seed == Seed(user_id, offset, Len(targets))
             arr == shuffle(targets, seed)
         IN  [out |-> SubSeq(arr, 1, k), targets |-> targets]

-----------------------------------------------------------------------------
(* storage.py: the statements the two backends issue, each one atomic *)

NoRow == [offset |-> -1, last_rotated_ts |-> -1]
DefaultRow == [offset |-> 0, last_rotated_ts |-> 0]

\* SELECT ... WHERE user_id=? / find_one({"user_id": user_id})
SelectRow(us, u) == IF u \in DOMAIN us THEN us[u] ELSE NoRow

InsertOrReplace(us, u) ==
    IF u \in DOMAIN us THEN [us EXCEPT ![u] = DefaultRow] ELSE us @@ (u :> DefaultRow)

\* INSERT OR IGNORE ... VALUES(?, 0, 0) / update_one($setOnInsert, upsert=True)
InsertOrIgnore(us, u) ==
    IF u \in DOMAIN us THEN us ELSE us @@ (u :> DefaultRow)

\* UPDATE user_fsub_state SET offset=?, last_rotated_ts=? WHERE user_id=?
UpdateRow(us, u, off, ts) ==
    IF u \in DOMAIN us
    THEN [us EXCEPT ![u] = [offset |-> off, last_rotated_ts |-> ts]]
    ELSE us

\* find_one_and_update({$inc: {offset: 1}, $set: {last_rotated_ts: now}}, upsert=True)
FindOneAndUpdate(us, u, ts) ==
    IF u \in DOMAIN us
    THEN [us EXCEPT ![u] = [offset |-> @.offset + 1, last_rotated_ts |-> ts]]
    ELSE us @@ (u :> [offset |-> 1, last_rotated_ts |-> ts])

\* a whole call with no other caller in between: the state returned, the table left
get_user_state(us, u) ==
    LET row == SelectRow(us, u)
    IN  IF row # NoRow THEN [st |-> row, us |-> us]
        ELSE [st |-> DefaultRow, us |-> InsertOrIgnore(us, u)]

bump_rotate(b, us, u, ts) ==
    IF b = "mongo"
    THEN LET us2 == FindOneAndUpdate(us, u, ts)
         IN  [st |-> SelectRow(us2, u), us |-> us2]
    ELSE LET g == get_user_state(us, u)
             new_offset == g.st.offset + 1
         IN  [st |-> [offset |-> new_offset, last_rotated_ts |-> ts],
              us |-> UpdateRow(g.us, u, new_offset, ts)]

\* INSERT OR REPLACE INTO user_fsub_state(user_id, last_rotated_ts) VALUES(?, ?)
set_rotated_ts_replace(b, us, u, ts) ==
    IF u \in DOMAIN us
    THEN [us EXCEPT ![u] = [offset |-> 0, last_rotated_ts |-> ts]]
    ELSE us @@ (u :> [offset |-> 0, last_rotated_ts |-> ts])

\* SQLite: UPDATE ... SET last_rotated_ts=? WHERE user_id=? (no row, no
\* change).  Mongo: update_one($set, upsert=True); a document created here
\* has no offset field, which every reader takes as 0 and $inc raises to 1.
set_rotated_ts(b, us, u, ts) ==
    IF u \in DOMAIN us THEN [us EXCEPT ![u].last_rotated_ts = ts]
    ELSE IF b = "mongo" THEN us @@ (u :> [offset |-> 0, last_rotated_ts |-> ts])
    ELSE us

\* INSERT OR REPLACE INTO fsub_skip_stats(check_chat, skips) VALUES(?, ?)
inc_skip_replace(ss, check_chat, n) ==
    IF check_chat \in DOMAIN ss
    THEN [ss EXCEPT ![check_chat] = n]
    ELSE ss @@ (check_chat :> n)

\* INSERT ... ON CONFLICT DO UPDATE SET skips = skips + ? / $inc with upsert
inc_skip(ss, check_chat, n) ==
    IF check_chat \in DOMAIN ss
    THEN [ss EXCEPT ![check_chat] = @ + n]
    ELSE ss @@ (check_chat :> n)

Skips(ss, check_chat) == IF check_chat \in DOMAIN ss THEN ss[check_chat] ELSE 0

\* the last_gate_key of a user's state; "" until one is set
LastGateKey(gk, u) == IF u \in DOMAIN gk THEN gk[u] ELSE ""

set_last_gate_key(gk, u, key) ==
    IF u \in DOMAIN gk THEN [gk EXCEPT ![u] = key] ELSE gk @@ (u :> key)

\* STORE.get(file_id)
get(fs, file_id) == IF file_id \in DOMAIN fs THEN fs[file_id] ELSE NoRec

\* a lookup that hands an unknown code back as the file id
get_file_id_by_code_echo(ls, code) == IF code \in DOMAIN ls THEN ls[code] ELSE code

\* STORE.get_file_id_by_code(code)
get_file_id_by_code(ls, code) == IF code \in DOMAIN ls THEN ls[code] ELSE None

-----------------------------------------------------------------------------
(* fsub.build_join_keyboard *)

JoinButton(idx, url) ==
    [kind |-> "join", idx |-> idx, url |-> url, callback_data |-> None]
ActionButton(kind, data) ==
    [kind |-> kind, idx |-> 0, url |-> NoUrl, callback_data |-> data]

\* invite[i]: whether create_chat_invite_link succeeds for visible[i].
\* Returns the rows closed so far and the row being filled.
RECURSIVE keyboardLoop(_, _, _, _, _, _, _)
keyboardLoop(visible, invite, per_row, i, idx, rows, buf) ==
    IF i > Len(visible) THEN [rows |-> rows, buf |-> buf]
    ELSE LET t == _split_target(visible[i])
             url == IF t[2] = NoUrl \/ t[2] = <<>>
                    THEN (IF invite[i] THEN <<"invite_link">> \o t[1] ELSE NoUrl)
                    ELSE t[2]
         IN  IF url = NoUrl
             THEN keyboardLoop(visible, invite, per_row, i + 1, idx, rows, buf)
             ELSE LET buf2 == Append(buf, JoinButton(idx, url))
                  IN  IF Len(buf2) >= per_row
                      THEN keyboardLoop(visible, invite, per_row, i + 1, idx + 1,
                                        Append(rows, buf2), <<>>)
                      ELSE keyboardLoop(visible, invite, per_row, i + 1, idx + 1,
                                        rows, buf2)

build_join_keyboard(targets, user_id, offset, per_row, invite, done_data, rotate_data, max_buttons) ==
    LET visible == _pick_visible_for_user(targets, user_id, offset, max_buttons).out
        r == keyboardLoop(visible, invite, per_row, 1, 1, <<>>, <<>>)
        rows == IF r.buf # <<>> THEN Append(r.rows, r.buf) ELSE r.rows
    IN  Append(rows, <<ActionButton("rotate", rotate_data),
                       ActionButton("done", done_data)>>)

-----------------------------------------------------------------------------
(* app.py: the gate handlers.  The application processes one update at a   *)
(* time, so a handler run is one step.  What the transport answers during  *)
(* the run (membership statuses, invite links, copy, delete) is an input.  *)

DbTargets == {-1001, -1002}
Kinds == {"document", "text"}

\* the check_chat handles _send_gate passes to inc_skip
SkipHandles ==
    {_split_target(force_sub_targets[i])[1] : i \in 1..Len(force_sub_targets)}

NoEv == [handler |-> "none", user |-> 0, file |-> None, checked |-> FALSE,
         ok |-> FALSE, queried |-> 0, ans |-> <<>>, copy |-> NoCopy,
         delivered |-> FALSE, notice |-> None, gate |-> NoGate,
         deleted |-> FALSE, calls |-> <<>>, code |-> None, token |-> None,
         posts |-> {}]

\* no user has a post session
NoSessions == [u \in Users |-> << >>]

\* no Enter gate and no Done yet
NoHist == [u \in Users |-> [entered |-> "", released |-> FALSE,
                           shown |-> NoGate]]

\* for raw in prev_visible: STORE.inc_skip(str(check_chat), 1)
incSkips_first_only(ss, visible, i) ==
    IF i > Len(visible) THEN ss
    ELSE inc_skip(ss, _split_target(visible[i])[1], 1)

RECURSIVE incSkips(_, _, _)
incSkips(ss, visible, i) ==
    IF i > Len(visible) THEN ss
    ELSE incSkips(inc_skip(ss, _split_target(visible[i])[1], 1), visible, i + 1)

\* "if st.last_gate_key != gate_key:" in place of line 134
Abandoned_any_change(key0, gate_key) == key0 # gate_key

\* if st.last_gate_key and st.last_gate_key != gate_key:
Abandoned(key0, gate_key) == key0 # "" /\ key0 # gate_key

\* the bump moved above the loop: the batch is picked at the bumped offset
AbandonSteps_bump_first(g0, ss, user_id, ts) ==
    LET g1 == bump_rotate(backend, g0.us, user_id, ts)
        prev_visible == _pick_visible_for_user(force_sub_targets, user_id,
                                               g1.st.offset, max_join_buttons).out
    IN  [g |-> g1, ss |-> incSkips(ss, prev_visible, 1), n |-> Len(prev_visible)]

\* the body of that if: prev_visible, the inc_skip loop, then bump_rotate
AbandonSteps(g0, ss, user_id, ts) ==
    LET prev_visible == _pick_visible_for_user(force_sub_targets, user_id,
                                               g0.st.offset, max_join_buttons).out
        ss1 == incSkips(ss, prev_visible, 1)
        g1 == bump_rotate(backend, g0.us, user_id, ts)
    IN  [g |-> g1, ss |-> ss1, n |-> Len(prev_visible)]

\* "if not st.last_gate_key:" in place of line 147
KeyChanged_only_first(key0, gate_key) == key0 = ""

\* if st.last_gate_key != gate_key:
KeyChanged(key0, gate_key) == key0 # gate_key

\* gate_key = file_id or ""
GateKey_empty(file_id) ==
    IF file_id # None /\ file_id # "" THEN file_id ELSE ""

\* gate_key = file_id or "__none__"
GateKey(file_id) ==
    IF file_id # None /\ file_id # "" THEN file_id ELSE NONE

\* done_data, without the "fsub_done:" prefix that done_cb splits off again
DoneData(file_id) ==
    IF file_id # None /\ file_id # "" THEN file_id ELSE NONE

_send_gate(us, gk, ss, user_id, file_id, invite, ts) ==
    LET gate_key == GateKey(file_id)
        g0 == get_user_state(us, user_id)
        key0 == LastGateKey(gk, user_id)
        abandoned == Abandoned(key0, gate_key)
        a == IF abandoned THEN AbandonSteps(g0, ss, user_id, ts)
             ELSE [g |-> g0, ss |-> ss, n |-> 0]
        changed == KeyChanged(key0, gate_key)
        gk1 == IF changed THEN set_last_gate_key(gk, user_id, gate_key) ELSE gk
        g2 == IF changed THEN get_user_state(a.g.us, user_id) ELSE a.g
        kb == build_join_keyboard(force_sub_targets, user_id, g2.st.offset,
                                  buttons_per_row, invite, DoneData(file_id),
                                  NoData, max_join_buttons)
        calls == <<"get_user_state">> \o
                 (IF abandoned
                  THEN [i \in 1..a.n |-> "inc_skip"] \o <<"bump_rotate">>
                  ELSE <<>>) \o
                 (IF changed THEN <<"set_last_gate_key", "get_user_state">>
                  ELSE <<>>) \o
                 <<"build_join_keyboard">>
    IN  [us |-> g2.us, gk |-> gk1, ss |-> a.ss, kb |-> kb, key |-> gate_key,
         calls |-> calls]

_send_file_swapped(fs, file_id, copyOk) ==
    LET rec == get(fs, file_id)
    IN  IF rec = NoRec
        THEN [copy |-> NoCopy, delivered |-> FALSE, notice |-> "file_not_found"]
        ELSE [copy |-> <<rec.db_message_id, rec.db_chat_id>>,
              delivered |-> copyOk,
              notice |-> IF copyOk THEN None ELSE "copy_failed"]

_send_file(fs, file_id, copyOk) ==
    LET rec == get(fs, file_id)
    IN  IF rec = NoRec
        THEN [copy |-> NoCopy, delivered |-> FALSE, notice |-> "file_not_found"]
        ELSE [copy |-> <<rec.db_chat_id, rec.db_message_id>>,
              delivered |-> copyOk,
              notice |-> IF copyOk THEN None ELSE "copy_failed"]

\* what get_chat_member answers for targets[1], targets[2], ... during one
\* handler run: every target "member", or one target denied.  (The loop of
\* is_user_joined_all issues no query after a denied one, so the answers that
\* would follow it are left at "member".)
Denied == {"left", "kicked", "error"}
Answers ==
    {[j \in 1..Len(force_sub_targets) |-> "member"]} \cup
    {[j \in 1..Len(force_sub_targets) |-> IF j = i THEN d ELSE "member"] :
        i \in 1..Len(force_sub_targets), d \in Denied}
Invites == [1..max_join_buttons -> BOOLEAN]

\* start_cmd with STORE.set_last_gate_key(u.id, "") before line 218
start_deliver_clears_key(chk, file_id) ==
    \E copyOk \in BOOLEAN :
    \E f \in {_send_file(files, file_id, copyOk)} :
        /\ ev' = [chk EXCEPT !.copy = f.copy, !.delivered = f.delivered,
                             !.notice = f.notice]
        /\ gate_keys' = set_last_gate_key(gate_keys, chk.user, "")
        /\ UNCHANGED <<user_state, skip_stats, files, links, gates, hist>>

\* start_cmd, the check passed: line 218, await _send_file(...)
start_deliver(chk, file_id) ==
    \E copyOk \in BOOLEAN :
    \E f \in {_send_file(files, file_id, copyOk)} :
        /\ ev' = [chk EXCEPT !.copy = f.copy, !.delivered = f.delivered,
                             !.notice = f.notice]
        /\ UNCHANGED <<storeVars, gates, hist>>

\* /start [CODE] sent by user u
start_cmd(u) ==
    /\ nEv < MaxEvents
    /\ \E args \in {<<>>} \cup {<<c>> : c \in Codes} :
         LET base == [NoEv EXCEPT !.handler = "start", !.user = u]
         IN
         IF args = <<>>
         THEN /\ ev' = [base EXCEPT !.notice = "welcome"]
              /\ UNCHANGED <<storeVars, gates, hist>>
         ELSE LET code == args[1]
                  file_id == get_file_id_by_code(links, code)
              IN
              IF file_id = None \/ file_id = ""
              THEN /\ ev' = [base EXCEPT !.code = code,
                                         !.notice = "link_invalid"]
                   /\ UNCHANGED <<storeVars, gates, hist>>
              ELSE \E ans \in Answers :
                   \E j \in {is_user_joined_all(force_sub_targets, ans)} :
                   LET chk == [base EXCEPT !.code = code,
                                           !.file = file_id, !.checked = TRUE,
                                           !.ok = j.ok, !.queried = j.queried,
                                           !.ans = ans]
                   IN
                   IF ~j.ok
                   THEN \E invite \in Invites :
                        \E g \in {_send_gate(user_state, gate_keys, skip_stats,
                                             u, file_id, invite, now)} :
                            /\ user_state' = g.us
                            /\ gate_keys' = g.gk
                            /\ skip_stats' = g.ss
                            /\ gates' = gates \cup {[user |-> u, kb |-> g.kb]}
                            /\ ev' = [chk EXCEPT !.gate = g.kb,
                                                 !.calls = g.calls]
                            /\ hist' = [hist EXCEPT ![u] =
                                          [entered |-> g.key,
                                           released |-> FALSE,
                                           shown |-> g.kb]]
                            /\ UNCHANGED <<files, links>>
                   ELSE start_deliver(chk, file_id)
    /\ nEv' = nEv + 1
    /\ UNCHANGED <<cfgVars, now, callerVars, sel, postVars>>

\* callback data of the button of that kind in the action row of a keyboard
ButtonData(kb, kind) ==
    LET row == kb[Len(kb)]
        i == CHOOSE i \in 1..Len(row) : row[i].kind = kind
    IN  row[i].callback_data

\* done_cb, the check did not pass: q.answer("Masih belum join semua."); return
done_reject_early_clear(chk) ==
    /\ ev' = [chk EXCEPT !.notice = "not_joined"]
    /\ gate_keys' = set_last_gate_key(gate_keys, chk.user, "")
    /\ UNCHANGED <<user_state, skip_stats, files, links, gates, hist>>

done_reject(chk) ==
    /\ ev' = [chk EXCEPT !.notice = "not_joined"]
    /\ UNCHANGED <<storeVars, gates, hist>>

\* STORE.set_last_gate_key(q.from_user.id, <the key of the gate>)
ClearedKey_kept(data) == data

\* the key done_cb stores: STORE.set_last_gate_key(q.from_user.id, "")
ClearedKey(data) == ""

\* done_cb, the check passed, without the try/except around q.message.delete():
\* a failing delete ends the handler
done_release_delete_raises(u, g, chk, file_id, delOk) ==
    IF ~delOk
    THEN /\ ev' = chk
         /\ UNCHANGED <<storeVars, gates, hist>>
    ELSE /\ gates' = gates \ {g}
         /\ gate_keys' = set_last_gate_key(gate_keys, u, ClearedKey(chk.file))
         /\ hist' = [hist EXCEPT ![u].released = TRUE]
         /\ IF file_id # None /\ file_id # ""
            THEN \E copyOk \in BOOLEAN :
                 \E f \in {_send_file(files, file_id, copyOk)} :
                     ev' = [chk EXCEPT !.copy = f.copy,
                                       !.delivered = f.delivered,
                                       !.notice = f.notice,
                                       !.deleted = delOk]
            ELSE ev' = [chk EXCEPT !.notice = "access_granted",
                                   !.deleted = delOk]
         /\ UNCHANGED <<user_state, skip_stats, files, links>>

\* done_cb, the check passed: q.answer(); delete the gate message (a failure
\* is swallowed); clear last_gate_key; send the file or "akses kebuka"
done_release(u, g, chk, file_id, delOk) ==
    /\ gates' = IF delOk THEN gates \ {g} ELSE gates
    /\ gate_keys' = set_last_gate_key(gate_keys, u, ClearedKey(chk.file))
    /\ hist' = [hist EXCEPT ![u].released = TRUE]
    /\ IF file_id # None /\ file_id # ""
       THEN \E copyOk \in BOOLEAN :
            \E f \in {_send_file(files, file_id, copyOk)} :
                ev' = [chk EXCEPT !.copy = f.copy,
                                  !.delivered = f.delivered,
                                  !.notice = f.notice,
                                  !.deleted = delOk]
       ELSE ev' = [chk EXCEPT !.notice = "access_granted",
                              !.deleted = delOk]
    /\ UNCHANGED <<user_state, skip_stats, files, links>>

\* the file of the user's stored last_gate_key in place of the button's
DoneFileId_stored(u, data) ==
    LET key == LastGateKey(gate_keys, u)
    IN  IF key = NONE \/ key = "" THEN None ELSE key

\* file_id = data.split(":", 1)[1].strip(); "__none__" stands for None
DoneFileId(u, data) == IF data = NONE THEN None ELSE data

\* user u presses "Sudah Join" on gate message g
done_cb(u) ==
    /\ nEv < MaxEvents
    /\ \E g \in gates, ans \in Answers :
         /\ g.user = u
         /\ \E j \in {is_user_joined_all(force_sub_targets, ans)} :
            LET data == ButtonData(g.kb, "done")
                file_id == DoneFileId(u, data)
                chk == [NoEv EXCEPT !.handler = "done", !.user = u,
                                    !.file = data, !.checked = TRUE,
                                    !.ok = j.ok, !.queried = j.queried,
                                    !.ans = ans]
            IN
            IF ~j.ok
            THEN done_reject(chk)
            ELSE \E delOk \in BOOLEAN : done_release(u, g, chk, file_id, delOk)
    /\ nEv' = nEv + 1
    /\ UNCHANGED <<cfgVars, now, callerVars, sel, postVars>>

\* user u presses "Ganti Channel" on gate message g: main() registers the
\* patterns ^fsub_done:, ^post_tgl:, ^post_send:, ^post_cancel: only, so no
\* handler takes the update
rotate_press(u) ==
    /\ nEv < MaxEvents
    /\ \E g \in gates :
         /\ g.user = u
         /\ ev' = [NoEv EXCEPT !.handler = "rotate", !.user = u,
                               !.file = ButtonData(g.kb, "rotate")]
    /\ nEv' = nEv + 1
    /\ UNCHANGED <<cfgVars, storeVars, now, gates, callerVars, sel, postVars,
                   hist>>

\* the tokens gen_code(12) draws
Tokens == {"t1", "t2"}

\* sessions.pop(token, None)
pop(ss, u, token) ==
    [ss EXCEPT ![u] = [t \in DOMAIN ss[u] \ {token} |-> ss[u][t]]]

PostChannels == {post_channel_ids[i] : i \in 1..Len(post_channel_ids)}

\* the channels a selection stands for:
\* [POST_CHANNEL_IDS[i] for i in sorted(selected) if 0 <= i < len(...)]
PostTargets(selected) ==
    {post_channel_ids[i + 1] : i \in {j \in selected :
                                        0 <= j /\ j < Len(post_channel_ids)}}

\* save_file, step 3: if POST_CHANNEL_IDS: a session under a new token
open_session(u, saved) ==
    IF post_channel_ids = << >>
    THEN /\ ev' = saved
         /\ UNCHANGED postVars
    ELSE \E token \in Tokens \ DOMAIN posted :
           /\ sessions' = [sessions EXCEPT ![u] = @ @@ (token :>
                  [chat_id |-> u,
                   msg_id |-> 201 + Cardinality(DOMAIN posted),
                   sel |-> {}])]
           /\ posted' = posted @@ (token :>
                  [user |-> u,
                   count |-> [ch \in PostChannels |-> 0]])
           /\ ev' = [saved EXCEPT !.token = token]

\* user u uploads a message
save_file(u) ==
    /\ nEv < MaxEvents
    /\ \E kind \in Kinds :
         LET base == [NoEv EXCEPT !.handler = "save", !.user = u]
         IN
         IF kind = "text"
         THEN /\ ev' = base
              /\ UNCHANGED <<storeVars, postVars>>
         ELSE \E db_chat_id \in DbTargets, copyOk \in BOOLEAN :
         IF ~copyOk
         THEN /\ ev' = [base EXCEPT !.notice = "db_copy_failed"]
              /\ UNCHANGED <<storeVars, postVars>>
         ELSE \E file_id \in FileIds \ DOMAIN files, hasUsername \in BOOLEAN :
                /\ files' = files @@ (file_id :>
                       [db_chat_id |-> db_chat_id, db_message_id |-> 103])
                /\ IF ~hasUsername
                   THEN /\ ev' = [base EXCEPT !.file = file_id,
                                              !.notice = "no_username"]
                        /\ UNCHANGED <<links, postVars>>
                   ELSE \E code \in Codes \ DOMAIN links :
                          /\ links' = links @@ (code :> file_id)
                          /\ open_session(u, [base EXCEPT !.file = file_id,
                                                          !.notice = "saved"])
                /\ UNCHANGED <<user_state, gate_keys, skip_stats>>
    /\ nEv' = nEv + 1
    /\ UNCHANGED <<cfgVars, now, gates, callerVars, sel, hist>>

\* the clock advances
Tick ==
    /\ now < MaxTime
    /\ now' = now + 1
    /\ UNCHANGED <<cfgVars, storeVars, gates, ev, nEv, callerVars, sel,
                   postVars, hist>>

\* the tables are persistent: two files uploaded in an earlier run of the bot
StoredFiles ==
    ("F1" :> [db_chat_id |-> -1001, db_message_id |-> 101]) @@
    ("F2" :> [db_chat_id |-> -1002, db_message_id |-> 102])
StoredLinks == ("c1" :> "F1") @@ ("c2" :> "F2")

Prefix(n) == SubSeq(TargetPool, 1, n)

Init ==
    /\ force_sub_targets \in {Prefix(n) : n \in 0..MaxTargets}
    /\ max_join_buttons \in 1..MaxK
    /\ buttons_per_row = 2
    /\ backend = "sqlite"
    /\ user_state = << >>
    /\ gate_keys = << >>
    /\ skip_stats = << >>
    /\ files = StoredFiles
    /\ links = StoredLinks
    /\ now = 1
    /\ gates = {}
    /\ ev = NoEv
    /\ nEv = 0
    /\ pc = << >>
    /\ loc = << >>
    /\ bumps = << >>
    /\ sel = << >>
    /\ post_channel_ids = << >>
    /\ sessions = NoSessions
    /\ posted = << >>
    /\ incs = << >>
    /\ hist = NoHist

Next ==
    \/ \E u \in Users : start_cmd(u)
    \/ \E u \in Users : done_cb(u)
    \/ \E u \in Users : rotate_press(u)
    \/ \E u \in Users : save_file(u)
    \/ Tick

Spec == Init /\ [][Next]_vars

-----------------------------------------------------------------------------
(* _send_gate applied to every value of its file_id parameter              *)
(* (specification SpecGate).  start_cmd, its one caller, always passes the *)
(* file id of a link; the parameter is "str | None" and None gives the     *)
(* gate key "__none__", which done_cb turns back into None.                *)

\* one call _send_gate(chat_id, u, context, file_id)
enter_gate(u) ==
    /\ nEv < MaxEvents
    /\ \E file_id \in {None} \cup DOMAIN files, invite \in Invites :
       \E g \in {_send_gate(user_state, gate_keys, skip_stats, u, file_id,
                            invite, now)} :
           /\ user_state' = g.us
           /\ gate_keys' = g.gk
           /\ skip_stats' = g.ss
           /\ gates' = gates \cup {[user |-> u, kb |-> g.kb]}
           /\ ev' = [NoEv EXCEPT !.handler = "gate", !.user = u,
                                 !.file = file_id, !.gate = g.kb,
                                 !.calls = g.calls]
           /\ hist' = [hist EXCEPT ![u] =
                         [entered |-> g.key, released |-> FALSE,
                          shown |-> g.kb]]
    /\ nEv' = nEv + 1
    /\ UNCHANGED <<cfgVars, files, links, now, callerVars, sel, postVars>>

NextGate ==
    \/ \E u \in Users : enter_gate(u)
    \/ \E u \in Users : done_cb(u)

SpecGate == Init /\ [][NextGate]_vars

-----------------------------------------------------------------------------
(* The gate functions and the operations of the store, each call run to    *)
(* its end before the next begins, on either backend (specification        *)
(* SpecOps).                                                                *)

StoreCall(u, call) ==
    [NoEv EXCEPT !.handler = "store", !.user = u, !.calls = <<call>>]

store_get_user_state(u) ==
    /\ nEv < MaxEvents
    /\ user_state' = get_user_state(user_state, u).us
    /\ ev' = StoreCall(u, "get_user_state")
    /\ nEv' = nEv + 1
    /\ UNCHANGED <<cfgVars, gate_keys, skip_stats, files, links, now, gates,
                   callerVars, sel, postVars, hist>>

store_bump_rotate(u) ==
    /\ nEv < MaxEvents
    /\ user_state' = bump_rotate(backend, user_state, u, now).us
    /\ ev' = StoreCall(u, "bump_rotate")
    /\ nEv' = nEv + 1
    /\ UNCHANGED <<cfgVars, gate_keys, skip_stats, files, links, now, gates,
                   callerVars, sel, postVars, hist>>

store_set_rotated_ts(u) ==
    /\ nEv < MaxEvents
    /\ \E ts \in {0, now} :
         user_state' = set_rotated_ts(backend, user_state, u, ts)
    /\ ev' = StoreCall(u, "set_rotated_ts")
    /\ nEv' = nEv + 1
    /\ UNCHANGED <<cfgVars, gate_keys, skip_stats, files, links, now, gates,
                   callerVars, sel, postVars, hist>>

store_set_last_gate_key(u) ==
    /\ nEv < MaxEvents
    /\ \E key \in {"", "F1"} :
         gate_keys' = set_last_gate_key(gate_keys, u, key)
    /\ ev' = StoreCall(u, "set_last_gate_key")
    /\ nEv' = nEv + 1
    /\ UNCHANGED <<cfgVars, user_state, skip_stats, files, links, now, gates,
                   callerVars, sel, postVars, hist>>

InitOps ==
    /\ force_sub_targets = Prefix(2)
    /\ max_join_buttons = 1
    /\ buttons_per_row = 2
    /\ backend \in {"sqlite", "mongo"}
    /\ user_state = << >>
    /\ gate_keys = << >>
    /\ skip_stats = << >>
    /\ files = StoredFiles
    /\ links = StoredLinks
    /\ now = MaxTime
    /\ gates = {}
    /\ ev = NoEv
    /\ nEv = 0
    /\ pc = << >>
    /\ loc = << >>
    /\ bumps = << >>
    /\ sel = << >>
    /\ post_channel_ids = << >>
    /\ sessions = NoSessions
    /\ posted = << >>
    /\ incs = << >>
    /\ hist = NoHist

NextOps ==
    \/ \E u \in Users : enter_gate(u)
    \/ \E u \in Users : done_cb(u)
    \/ \E u \in Users : store_get_user_state(u)
    \/ \E u \in Users : store_bump_rotate(u)
    \/ \E u \in Users : store_set_rotated_ts(u)
    \/ \E u \in Users : store_set_last_gate_key(u)

SpecOps == InitOps /\ [][NextOps]_vars

-----------------------------------------------------------------------------
(* Properties of the gate handlers (specification Spec) *)

Offset(us, u) == IF u \in DOMAIN us THEN us[u].offset ELSE 0
RotatedTs(us, u) == IF u \in DOMAIN us THEN us[u].last_rotated_ts ELSE 0
CheckChat(raw) == _split_target(raw)[1]
Location(file_id) == <<files[file_id].db_chat_id, files[file_id].db_message_id>>
\* this step is a run of the handler h for user u
Ran(h, u) == nEv' = nEv + 1 /\ ev'.handler = h /\ ev'.user = u

\* C1: a stored file is copied to a user's chat by start_cmd or done_cb only
\* if in that same run is_user_joined_all returned true after querying every
\* configured target (not only the visible ones) and no query failed or
\* answered "left"/"kicked".
C1_CopyOnlyAfterFullCheck ==
    (ev.handler \in {"start", "done"} /\ ev.copy # NoCopy) =>
        /\ ev.checked /\ ev.ok
        /\ ev.queried = Len(force_sub_targets)
        /\ \A i \in 1..Len(force_sub_targets) : ev.ans[i] \notin Denied

C1_Witness ==
    /\ ev.handler = "done" /\ ev.copy # NoCopy
    /\ Len(force_sub_targets) > max_join_buttons

C4_DoneReleases ==
    (ev.handler = "done" /\ ev.ok /\ ev.file \in DOMAIN files) =>
        /\ LastGateKey(gate_keys, ev.user) = ""
        /\ ev.copy = Location(ev.file)

C4_Witness ==
    /\ ev.handler = "done" /\ ev.ok /\ ev.file = "F2"
    /\ ev.copy = <<-1002, 102>>
    /\ ev.user \in DOMAIN gate_keys

\* C5: a Done press whose membership check fails is answered with the
\* "not joined" notice and changes nothing: offset, last_rotated_ts,
\* last_gate_key, the skip counters and the standing gate messages are as
\* before and no file is copied.
C5_DoneRejectedNoChange ==
    [][\A u \in Users :
        (Ran("done", u) /\ ~ev'.ok) =>
            /\ ev'.notice = "not_joined"
            /\ user_state' = user_state
            /\ gate_keys' = gate_keys
            /\ skip_stats' = skip_stats
            /\ gates' = gates
            /\ ev'.copy = NoCopy /\ ~ev'.deleted
      ]_vars

C5_Witness ==
    /\ ev.handler = "done" /\ ev.checked /\ ~ev.ok /\ ev.notice = "not_joined"
    /\ LastGateKey(gate_keys, ev.user) # ""

\* how often the call c occurs in the call trace of a handler run
Count(calls, c) == Cardinality({i \in 1..Len(calls) : calls[i] = c})

\* C14: an Enter gate for gate key F of a user whose last_gate_key is "" or
\* is F itself does no abandonment accounting: the user's offset and
\* last_rotated_ts and all skip counters are as before, and neither inc_skip
\* nor bump_rotate is called.  last_gate_key is written exactly when it
\* differs from F, and then it becomes F.
C14_AccountingOnlyOnAbandon ==
    [][\A u \in Users :
        (Ran("start", u) /\ ev'.gate # NoGate) =>
            LET F == ev'.file
                key0 == LastGateKey(gate_keys, u)
            IN  /\ (key0 = "" \/ key0 = F) =>
                     /\ Offset(user_state', u) = Offset(user_state, u)
                     /\ RotatedTs(user_state', u) = RotatedTs(user_state, u)
                     /\ skip_stats' = skip_stats
                     /\ Count(ev'.calls, "inc_skip") = 0
                     /\ Count(ev'.calls, "bump_rotate") = 0
                /\ key0 = F =>
                     /\ Count(ev'.calls, "set_last_gate_key") = 0
                     /\ gate_keys' = gate_keys
                /\ key0 # F =>
                     /\ Count(ev'.calls, "set_last_gate_key") = 1
                     /\ LastGateKey(gate_keys', u) = F
      ]_vars

\* the same file requested again while its gate is pending
C14_Witness ==
    /\ ev.handler = "start" /\ ev.gate # NoGate /\ nEv >= 2
    /\ ev.calls = <<"get_user_state", "build_join_keyboard">>
    /\ LastGateKey(gate_keys, ev.user) = ev.file
    /\ Offset(user_state, ev.user) = 0
    /\ skip_stats = << >>

\* the call trace of an abandoning _send_gate that skips n targets
AbandonTrace(n) ==
    <<"get_user_state">> \o [i \in 1..n |-> "inc_skip"] \o
    <<"bump_rotate", "set_last_gate_key", "get_user_state",
      "build_join_keyboard">>

C16_FreshAfterDone ==
    [][\A u \in Users :
        (hist[u].released /\ Ran("start", u) /\ ev'.gate # NoGate) =>
            /\ skip_stats' = skip_stats
            /\ Offset(user_state', u) = Offset(user_state, u)
            /\ RotatedTs(user_state', u) = RotatedTs(user_state, u)
            /\ Count(ev'.calls, "inc_skip") = 0
            /\ Count(ev'.calls, "bump_rotate") = 0
      ]_vars

\* gated for one file, released by Done (the old gate message could not be
\* deleted), then gated for another file without accounting
C16_Witness ==
    \E u \in Users :
        /\ ev.handler = "start" /\ ev.user = u /\ ev.gate # NoGate
        /\ ev.calls = <<"get_user_state", "set_last_gate_key",
                        "get_user_state", "build_join_keyboard">>
        /\ \E g \in gates : g.user = u /\ ButtonData(g.kb, "done") # ev.file
        /\ hist[u].entered = ev.file /\ ~hist[u].released
        /\ skip_stats = << >> /\ Offset(user_state, u) = 0

\* C19: after any sequence of Enter gate and Done events the stored
\* last_gate_key of a user is "" or the gate key of that user's most recent
\* Enter gate, and it is "" whenever the user's latest such event is a
\* successful Done.
C19_OneActiveGateKey ==
    \A u \in Users :
        /\ LastGateKey(gate_keys, u) \in {"", hist[u].entered}
        /\ hist[u].released => LastGateKey(gate_keys, u) = ""

\* one user released, the other gated a second time for another file
C19_Witness ==
    \E u, v \in Users :
        /\ hist[u].released /\ hist[u].entered # ""
        /\ LastGateKey(gate_keys, u) = ""
        /\ ~hist[v].released /\ LastGateKey(gate_keys, v) = hist[v].entered
        /\ hist[v].entered # ""

\* C17: a call _send_gate(file_id = None) stores the key "__none__", never
\* "", and binds the Done button to it; a user whose last_gate_key is
\* "__none__" (or any other key than F) and for whom _send_gate is called with
\* an actual file F gets the abandonment accounting: the counters of the
\* batch visible at the old offset rise by 1, the offset rises by 1 and
\* last_gate_key becomes F.
C17_NoneSentinelIsAKey ==
    [][\A u \in Users :
        Ran("gate", u) =>
            LET key0 == LastGateKey(gate_keys, u)
                off == Offset(user_state, u)
                batch == _pick_visible_for_user(force_sub_targets, u, off,
                                                max_join_buttons).out
                hits(h) == Cardinality({i \in 1..Len(batch) :
                                           CheckChat(batch[i]) = h})
            IN  /\ LastGateKey(gate_keys', u) # ""
                /\ ev'.file = None =>
                     /\ LastGateKey(gate_keys', u) = "__none__"
                     /\ ButtonData(ev'.gate, "done") = "__none__"
                /\ (ev'.file \in FileIds /\ key0 \notin {"", ev'.file}) =>
                     /\ \A h \in SkipHandles \cup DOMAIN skip_stats' :
                          Skips(skip_stats', h) = Skips(skip_stats, h) + hits(h)
                     /\ Offset(user_state', u) = off + 1
                     /\ LastGateKey(gate_keys', u) = ev'.file
                     /\ ev'.calls = AbandonTrace(Len(batch))
      ]_vars

\* a user gated with the sentinel, then for a file: the sentinel gate message
\* is still there, the offset is 1 and two counters are 1
C17_Witness ==
    \E u \in Users :
        /\ ev.handler = "gate" /\ ev.user = u /\ ev.file = "F1" /\ nEv = 2
        /\ \E g \in gates : g.user = u /\ ButtonData(g.kb, "done") = NONE
        /\ Offset(user_state, u) = 1
        /\ Cardinality({h \in DOMAIN skip_stats : skip_stats[h] = 1}) = 2
        /\ LastGateKey(gate_keys, u) = "F1"

\* C20: a Done press whose check succeeds completes the release whether or
\* not the gate message could be deleted: last_gate_key becomes "", a stored
\* file is copied from its stored location (or "file not found" is sent), a
\* sentinel gate gets the access-granted notice, and rotation state and skip
\* counters are untouched; the only difference a failed delete makes is that
\* the gate message stays.
C20_DeleteFailureAbsorbed ==
    [][\A u \in Users :
        (Ran("done", u) /\ ev'.ok) =>
            /\ LastGateKey(gate_keys', u) = ""
            /\ ev'.file = NONE =>
                  (ev'.notice = "access_granted" /\ ev'.copy = NoCopy)
            /\ ev'.file \in DOMAIN files =>
                  /\ ev'.copy = Location(ev'.file)
                  /\ ev'.delivered \/ ev'.notice = "copy_failed"
            /\ user_state' = user_state /\ skip_stats' = skip_stats
            /\ ~ev'.deleted => gates' = gates
      ]_vars

\* a sentinel gate released although its message could not be deleted
C20_Witness ==
    /\ ev.handler = "done" /\ ev.ok /\ ~ev.deleted
    /\ ev.file = NONE /\ ev.notice = "access_granted"
    /\ LastGateKey(gate_keys, ev.user) = ""
    /\ \E g \in gates : g.user = ev.user /\ ButtonData(g.kb, "done") = NONE

ButtonUrl(raw) ==
    LET t == _split_target(raw)
    IN  IF t[2] = NoUrl \/ t[2] = <<>> THEN <<"invite_link">> \o t[1] ELSE t[2]

\* the keyboard kb has a join button for the target
Displayed(kb, raw) ==
    \E r \in 1..Len(kb) : \E b \in 1..Len(kb[r]) :
        kb[r][b].kind = "join" /\ kb[r][b].url = ButtonUrl(raw)

\* C21: every target whose skip counter an abandoning Enter gate increments
\* had a join button in the keyboard of the gate that is abandoned (the
\* user's previous Enter gate), also when create_chat_invite_link failed for
\* some targets while that keyboard was built.
C21_SkippedWereDisplayed ==
    [][\A u \in Users :
        (/\ Ran("start", u) /\ ev'.gate # NoGate
         /\ LastGateKey(gate_keys, u) \notin {"", ev'.file}) =>
            \A i \in 1..Len(force_sub_targets) :
                Skips(skip_stats', CheckChat(force_sub_targets[i]))
                    > Skips(skip_stats, CheckChat(force_sub_targets[i]))
                => Displayed(hist[u].shown, force_sub_targets[i])
      ]_vars

\* C23: a redeem by a user who is joined to all targets copies the file of
\* the link to the user, shows no gate and leaves offset, last_rotated_ts,
\* last_gate_key and every skip counter as they were, also when last_gate_key
\* holds the key of an earlier unresolved gate.
C23_JoinedRedeemLeavesGatingState ==
    [][\A u \in Users :
        (Ran("start", u) /\ ev'.checked /\ ev'.ok) =>
            /\ ev'.copy = Location(ev'.file)
            /\ ev'.gate = NoGate
            /\ gates' = gates
            /\ user_state' = user_state
            /\ \A v \in Users :
                  LastGateKey(gate_keys', v) = LastGateKey(gate_keys, v)
            /\ skip_stats' = skip_stats
      ]_vars

\* a joined redeem has copied the file while the user's last_gate_key is the
\* key of an earlier gate for another file, which is still on display
C23_Witness ==
    /\ ev.handler = "start" /\ ev.checked /\ ev.ok
    /\ ev.copy = Location(ev.file)
    /\ LastGateKey(gate_keys, ev.user) \notin {"", ev.file}
    /\ \E g \in gates : g.user = ev.user

\* C25: start_cmd shows a gate only for a code that resolves to a stored
\* file.  Without a payload it only sends the welcome, with an unknown code
\* it only replies that the link is invalid; in both cases it makes no
\* membership query, shows no gate, copies nothing, and offset,
\* last_rotated_ts, last_gate_key and the skip counters are unchanged.
C25_GateOnlyForStoredFile ==
    [][\A u \in Users :
        Ran("start", u) =>
            /\ ev'.gate # NoGate =>
                  /\ ev'.code \in DOMAIN links
                  /\ ev'.file = links[ev'.code]
                  /\ ev'.file \in DOMAIN files
            /\ (ev'.code = None \/ ev'.code \notin DOMAIN links) =>
                  /\ ev'.notice =
                        IF ev'.code = None THEN "welcome" ELSE "link_invalid"
                  /\ ~ev'.checked /\ ev'.queried = 0
                  /\ ev'.gate = NoGate /\ ev'.copy = NoCopy
                  /\ gates' = gates
                  /\ user_state' = user_state
                  /\ \A v \in Users :
                        LastGateKey(gate_keys', v) = LastGateKey(gate_keys, v)
                  /\ skip_stats' = skip_stats
      ]_vars

\* /start with an unknown code has been answered "link invalid" for a user
\* who holds an unresolved gate
C25_Witness ==
    /\ ev.handler = "start"
    /\ ev.code # None /\ ev.code \notin DOMAIN links
    /\ ev.notice = "link_invalid"
    /\ LastGateKey(gate_keys, ev.user) # ""
    /\ \E g \in gates : g.user = ev.user

\* C24: a Done that passes the check delivers the file whose identifier is
\* in the callback data of the pressed button (ev.file; for the sentinel
\* "__none__" no file, only the access notice) and sets last_gate_key to "",
\* whether or not that identifier is the user's stored last_gate_key.
C24_DoneDeliversButtonFile ==
    [][\A u \in Users :
        (Ran("done", u) /\ ev'.ok) =>
            /\ \E g \in gates :
                  g.user = u /\ ButtonData(g.kb, "done") = ev'.file
            /\ IF ev'.file = NONE
               THEN ev'.copy = NoCopy /\ ev'.notice = "access_granted"
               ELSE ev'.copy = Location(ev'.file)
            /\ LastGateKey(gate_keys', u) = ""
      ]_vars

\* Done was pressed on an older gate message after a newer gate had been
\* shown: the file delivered is not the one of the stored last_gate_key
C24_Witness ==
    /\ ev.handler = "done" /\ ev.ok
    /\ hist[ev.user].entered \notin {"", ev.file}
    /\ ev.file # NONE /\ ev.copy = Location(ev.file)
    /\ LastGateKey(gate_keys, ev.user) = ""

\* C12: with an empty target list every membership check of start_cmd and
\* done_cb returns true without a single get_chat_member query, for every
\* user; no gate message is ever sent and a redeem goes straight to the copy
\* of the stored file.
C12_EmptyTargetsNoGate ==
    force_sub_targets = <<>> =>
        /\ gates = {}
        /\ ev.gate = NoGate
        /\ ev.checked => (ev.ok /\ ev.queried = 0)
        /\ (ev.handler = "start" /\ ev.checked) => ev.copy = Location(ev.file)

C12_Witness ==
    /\ force_sub_targets = <<>>
    /\ ev.handler = "start" /\ ev.user = 2 /\ ev.file = "F1"
    /\ ev.ok /\ ev.queried = 0 /\ ev.delivered

-----------------------------------------------------------------------------
(* storage.py under concurrent callers (specification SpecStore): several   *)
(* bot processes share one store; a caller runs one storage call at a time, *)
(* statement by statement, and the statements of different callers          *)
(* interleave.                                                              *)

Callers == 1..NumCallers

Idle == [op |-> "none", user |-> 0, st |-> NoRow, key |-> "", ret |-> NoRow,
         fresh |-> FALSE, chat |-> <<>>, raced |-> FALSE]

\* a caller enters get_user_state or bump_rotate
Call(c) ==
    /\ pc[c] = "idle"
    /\ nEv < MaxCalls
    /\ \E op \in {"get", "bump"}, u \in Users :
         /\ loc' = [loc EXCEPT ![c] = [Idle EXCEPT !.op = op, !.user = u]]
         /\ pc' = [pc EXCEPT ![c] =
                     IF op = "bump" /\ backend = "mongo"
                     THEN "find_one_and_update" ELSE "select"]
    /\ nEv' = nEv + 1
    /\ UNCHANGED <<cfgVars, storeVars, now, gates, ev, bumps, sel, postVars,
                   incs, hist>>

\* get_user_state: the SELECT / find_one
StepSelect(c) ==
    /\ pc[c] = "select"
    /\ LET u == loc[c].user
           row == SelectRow(user_state, u)
       IN  IF row # NoRow
           THEN IF loc[c].op = "get"
                THEN /\ loc' = [loc EXCEPT ![c].st = row, ![c].ret = row,
                                           ![c].key = LastGateKey(gate_keys, u)]
                     /\ pc' = [pc EXCEPT ![c] = "idle"]
                ELSE /\ loc' = [loc EXCEPT ![c].st = row]
                     /\ pc' = [pc EXCEPT ![c] = "update"]
           ELSE /\ loc' = [loc EXCEPT ![c].fresh = TRUE]
                /\ pc' = [pc EXCEPT ![c] = "insert"]
    /\ UNCHANGED <<cfgVars, storeVars, now, gates, ev, nEv, bumps, sel,
                   postVars, incs, hist>>

\* get_user_state: create default, return UserFsubState(user_id, 0, 0)
StepInsert(c) ==
    /\ pc[c] = "insert"
    /\ LET u == loc[c].user
       IN  /\ user_state' = InsertOrIgnore(user_state, u)
           /\ IF loc[c].op = "get"
              THEN /\ loc' = [loc EXCEPT ![c].st = DefaultRow,
                                         ![c].ret = DefaultRow,
                                         ![c].key = LastGateKey(gate_keys, u)]
                   /\ pc' = [pc EXCEPT ![c] = "idle"]
              ELSE /\ loc' = [loc EXCEPT ![c].st = DefaultRow]
                   /\ pc' = [pc EXCEPT ![c] = "update"]
    /\ UNCHANGED <<cfgVars, gate_keys, skip_stats, files, links, now, gates,
                   ev, nEv, bumps, sel, postVars, incs, hist>>

\* SQLiteStorage.bump_rotate: new_offset = st.offset + 1; UPDATE; return
StepUpdate(c) ==
    /\ pc[c] = "update"
    /\ LET u == loc[c].user
           new_offset == loc[c].st.offset + 1
       IN  /\ user_state' = UpdateRow(user_state, u, new_offset, now)
           /\ loc' = [loc EXCEPT ![c].ret =
                        [offset |-> new_offset, last_rotated_ts |-> now]]
           /\ bumps' = [bumps EXCEPT ![u] = @ + 1]
    /\ pc' = [pc EXCEPT ![c] = "idle"]
    /\ UNCHANGED <<cfgVars, gate_keys, skip_stats, files, links, now, gates,
                   ev, nEv, sel, postVars, incs, hist>>

\* MongoStorage.bump_rotate: find_one_and_update
StepFindOneAndUpdate(c) ==
    /\ pc[c] = "find_one_and_update"
    /\ user_state' = FindOneAndUpdate(user_state, loc[c].user, now)
    /\ pc' = [pc EXCEPT ![c] = "reread"]
    /\ UNCHANGED <<cfgVars, gate_keys, skip_stats, files, links, now, gates,
                   ev, nEv, loc, bumps, sel, postVars, incs, hist>>

\* MongoStorage.bump_rotate: st = find_one(...); return
StepReread(c) ==
    /\ pc[c] = "reread"
    /\ LET u == loc[c].user
       IN  /\ loc' = [loc EXCEPT ![c].ret = SelectRow(user_state, u)]
           /\ bumps' = [bumps EXCEPT ![u] = @ + 1]
    /\ pc' = [pc EXCEPT ![c] = "idle"]
    /\ UNCHANGED <<cfgVars, storeVars, now, gates, ev, nEv, sel, postVars,
                   incs, hist>>

\* a caller enters inc_skip(check_chat, 1)
CallIncSkip(c) ==
    /\ pc[c] = "idle"
    /\ nEv < MaxCalls
    /\ \E h \in SkipHandles :
         loc' = [loc EXCEPT ![c] = [Idle EXCEPT !.op = "inc", !.chat = h]]
    /\ pc' = [pc EXCEPT ![c] = "upsert"]
    /\ nEv' = nEv + 1
    /\ UNCHANGED <<cfgVars, storeVars, now, gates, ev, bumps, sel, postVars,
                   incs, hist>>

\* inc_skip: the one INSERT ... ON CONFLICT DO UPDATE / update_one($inc,
\* upsert=True) statement, then return
StepUpsert(c) ==
    /\ pc[c] = "upsert"
    /\ LET h == loc[c].chat
       IN  /\ skip_stats' = inc_skip(skip_stats, h, 1)
           /\ incs' = [incs EXCEPT ![h] = @ + 1]
           /\ loc' = [loc EXCEPT ![c].raced =
                        \E d \in Callers \ {c} :
                            pc[d] = "upsert" /\ loc[d].chat = h]
    /\ pc' = [pc EXCEPT ![c] = "idle"]
    /\ UNCHANGED <<cfgVars, user_state, gate_keys, files, links, now, gates,
                   ev, nEv, bumps, sel, postVars, hist>>

InitStore ==
    /\ force_sub_targets = Prefix(2)
    /\ max_join_buttons = MaxK
    /\ buttons_per_row = 2
    /\ backend \in {"sqlite", "mongo"}
    /\ user_state = << >>
    /\ gate_keys = << >>
    /\ skip_stats = << >>
    /\ files = StoredFiles
    /\ links = StoredLinks
    /\ now \in 1..MaxTime
    /\ gates = {}
    /\ ev = NoEv
    /\ nEv = 0
    /\ pc = [c \in Callers |-> "idle"]
    /\ loc = [c \in Callers |-> Idle]
    /\ bumps = [u \in Users |-> 0]
    /\ sel = << >>
    /\ post_channel_ids = << >>
    /\ sessions = NoSessions
    /\ posted = << >>
    /\ incs = [h \in SkipHandles |-> 0]
    /\ hist = NoHist

NextStore ==
    \/ \E c \in Callers : Call(c)
    \/ \E c \in Callers : StepSelect(c)
    \/ \E c \in Callers : StepInsert(c)
    \/ \E c \in Callers : StepUpdate(c)
    \/ \E c \in Callers : StepFindOneAndUpdate(c)
    \/ \E c \in Callers : StepReread(c)
    \/ \E c \in Callers : CallIncSkip(c)
    \/ \E c \in Callers : StepUpsert(c)

SpecStore == InitStore /\ [][NextStore]_vars

\* C6: N bump_rotate calls for one user, issued concurrently against the
\* shared store (empty at the start), leave that user's offset at exactly N
\* once all of them have returned, in the SQLite and in the Mongo backend.
C6_NoLostBump ==
    (\A c \in Callers : pc[c] = "idle") =>
        \A u \in Users : Offset(user_state, u) = bumps[u]

\* C13: inc_skip is one atomic upsert-and-add: whatever way the inc_skip(h, 1)
\* calls of concurrent callers interleave, including the calls that create
\* the record, the counter of h equals the number of calls that have returned
\* (the store starts empty); every counter is a natural number, no step
\* lowers a counter and no step removes a record.
C13_IncSkipAtomic ==
    [][\A h \in SkipHandles :
          /\ Skips(skip_stats', h) = incs'[h]
          /\ Skips(skip_stats', h) \in Nat
          /\ Skips(skip_stats', h) >= Skips(skip_stats, h)
          /\ h \in DOMAIN skip_stats => h \in DOMAIN skip_stats'
      ]_vars

\* two callers were inside inc_skip for the same handle at the same time and
\* both have returned
C13_Witness ==
    \E h \in SkipHandles :
        /\ \A c \in Callers :
              pc[c] = "idle" /\ loc[c].op = "inc" /\ loc[c].chat = h
        /\ \E c \in Callers : loc[c].raced
        /\ skip_stats[h] = 2

\* C8: the get_user_state that finds no record for the user returns
\* offset 0, last_gate_key "", last_rotated_ts 0 and leaves a record for the
\* user in the store (the zero-valued one when it is the call that creates
\* it); no statement of get_user_state changes a record that exists, whatever
\* statements of other get or bump calls ran in between.
C8_GetDefaultAndNoChange ==
    [][\A c \in Callers :
        /\ (pc[c] = "insert" /\ loc[c].op = "get" /\ pc'[c] = "idle") =>
              /\ loc'[c].ret = DefaultRow /\ loc'[c].key = ""
              /\ loc[c].user \in DOMAIN user_state'
              /\ loc[c].user \notin DOMAIN user_state =>
                     user_state'[loc[c].user] = DefaultRow
        /\ (pc[c] \in {"select", "insert"} /\ pc'[c] # pc[c]) =>
              /\ \A u \in DOMAIN user_state : user_state'[u] = user_state[u]
              /\ gate_keys' = gate_keys
      ]_vars

\* a get found no record, another caller's bump created and raised it, and
\* the get has returned
C8_Witness ==
    \E c \in Callers :
        /\ pc[c] = "idle" /\ loc[c].op = "get" /\ loc[c].fresh
        /\ loc[c].ret = DefaultRow
        /\ loc[c].user \in DOMAIN user_state
        /\ user_state[loc[c].user].offset >= 1

-----------------------------------------------------------------------------
(* _send_gate under concurrent deliveries (specification SpecDup): the same *)
(* redeem reaches several bot processes that share one store.  Each runs    *)
(* lines 132-170 of app.py store call by store call (bump_rotate statement  *)
(* by statement), and the calls of different processes interleave.  Inside  *)
(* one process lines 132-149 contain no await and run without interruption. *)

\* the locals of one _send_gate run
NoRun == [user |-> 0, file |-> None, st |-> NoRow, key |-> "",
          prev_visible |-> <<>>, i |-> 0]

\* the redeem that is delivered: the user holds an unresolved gate for F1
\* and redeems F2
DupUser == CHOOSE u \in Users : u \in DOMAIN gate_keys
DupFile == "F2"

\* where the run goes at line 147: if st.last_gate_key != gate_key
AtKeyCheck(key, gate_key) ==
    IF KeyChanged(key, gate_key) THEN "set_last_gate_key"
    ELSE "build_join_keyboard"

\* a process receives the update and reaches _send_gate (the membership check
\* of start_cmd has failed)
Deliver(c) ==
    /\ pc[c] = "idle"
    /\ loc' = [loc EXCEPT ![c] = [NoRun EXCEPT !.user = DupUser,
                                               !.file = DupFile]]
    /\ pc' = [pc EXCEPT ![c] = "get_user_state"]
    /\ nEv' = nEv + 1
    /\ UNCHANGED <<cfgVars, storeVars, now, gates, ev, bumps, sel, postVars,
                   incs, hist>>

\* line 132 st = STORE.get_user_state(user_id), and the test of line 134
GateRead(c) ==
    /\ pc[c] = "get_user_state"
    /\ LET u == loc[c].user
           g == get_user_state(user_state, u)
           key0 == LastGateKey(gate_keys, u)
           gate_key == GateKey(loc[c].file)
           prev_visible == _pick_visible_for_user(force_sub_targets, u,
                               g.st.offset, max_join_buttons).out
       IN  /\ user_state' = g.us
           /\ IF Abandoned(key0, gate_key)
              THEN /\ loc' = [loc EXCEPT ![c].st = g.st, ![c].key = key0,
                                         ![c].prev_visible = prev_visible,
                                         ![c].i = 1]
                   /\ pc' = [pc EXCEPT ![c] =
                               IF prev_visible = <<>> THEN "bump_rotate"
                               ELSE "inc_skip"]
              ELSE /\ loc' = [loc EXCEPT ![c].st = g.st, ![c].key = key0]
                   /\ pc' = [pc EXCEPT ![c] = AtKeyCheck(key0, gate_key)]
    /\ UNCHANGED <<cfgVars, gate_keys, skip_stats, files, links, now, gates,
                   ev, nEv, bumps, sel, postVars, incs, hist>>

\* lines 141-143, one pass of the loop: STORE.inc_skip(str(check_chat), 1)
GateIncSkip(c) ==
    /\ pc[c] = "inc_skip"
    /\ LET i == loc[c].i
           h == CheckChat(loc[c].prev_visible[i])
       IN  /\ skip_stats' = inc_skip(skip_stats, h, 1)
           /\ incs' = [incs EXCEPT ![h] = @ + 1]
           /\ loc' = [loc EXCEPT ![c].i = i + 1]
           /\ pc' = [pc EXCEPT ![c] =
                       IF i = Len(loc[c].prev_visible) THEN "bump_rotate"
                       ELSE "inc_skip"]
    /\ UNCHANGED <<cfgVars, user_state, gate_keys, files, links, now, gates,
                   ev, nEv, bumps, sel, postVars, hist>>

\* line 145 st = STORE.bump_rotate(user_id): SQLite reads the row, Mongo
\* issues find_one_and_update
GateBumpRead(c) ==
    /\ pc[c] = "bump_rotate"
    /\ IF backend = "mongo"
       THEN /\ user_state' = FindOneAndUpdate(user_state, loc[c].user, now)
            /\ pc' = [pc EXCEPT ![c] = "reread"]
            /\ loc' = loc
       ELSE /\ loc' = [loc EXCEPT ![c].st = SelectRow(user_state, loc[c].user)]
            /\ pc' = [pc EXCEPT ![c] = "update"]
            /\ user_state' = user_state
    /\ UNCHANGED <<cfgVars, gate_keys, skip_stats, files, links, now, gates,
                   ev, nEv, bumps, sel, postVars, incs, hist>>

\* SQLiteStorage.bump_rotate: new_offset = st.offset + 1; UPDATE; return
GateBumpUpdate(c) ==
    /\ pc[c] = "update"
    /\ LET u == loc[c].user
           new_offset == loc[c].st.offset + 1
       IN  /\ user_state' = UpdateRow(user_state, u, new_offset, now)
           /\ loc' = [loc EXCEPT ![c].st =
                        [offset |-> new_offset, last_rotated_ts |-> now]]
           /\ bumps' = [bumps EXCEPT ![u] = @ + 1]
           /\ pc' = [pc EXCEPT ![c] =
                       AtKeyCheck(loc[c].key, GateKey(loc[c].file))]
    /\ UNCHANGED <<cfgVars, gate_keys, skip_stats, files, links, now, gates,
                   ev, nEv, sel, postVars, incs, hist>>

\* MongoStorage.bump_rotate: st = find_one(...); return
GateBumpReread(c) ==
    /\ pc[c] = "reread"
    /\ LET u == loc[c].user
           key1 == LastGateKey(gate_keys, u)
       IN  /\ loc' = [loc EXCEPT ![c].st = SelectRow(user_state, u),
                                 ![c].key = key1]
           /\ bumps' = [bumps EXCEPT ![u] = @ + 1]
           /\ pc' = [pc EXCEPT ![c] = AtKeyCheck(key1, GateKey(loc[c].file))]
    /\ UNCHANGED <<cfgVars, storeVars, now, gates, ev, nEv, sel, postVars,
                   incs, hist>>

\* line 148 STORE.set_last_gate_key(user_id, gate_key)
GateSetKey(c) ==
    /\ pc[c] = "set_last_gate_key"
    /\ gate_keys' = set_last_gate_key(gate_keys, loc[c].user,
                                      GateKey(loc[c].file))
    /\ pc' = [pc EXCEPT ![c] = "reget"]
    /\ UNCHANGED <<cfgVars, user_state, skip_stats, files, links, now, gates,
                   ev, nEv, loc, bumps, sel, postVars, incs, hist>>

\* line 149 st = STORE.get_user_state(user_id)
GateReget(c) ==
    /\ pc[c] = "reget"
    /\ LET u == loc[c].user
           g == get_user_state(user_state, u)
       IN  /\ user_state' = g.us
           /\ loc' = [loc EXCEPT ![c].st = g.st,
                                 ![c].key = LastGateKey(gate_keys, u)]
    /\ pc' = [pc EXCEPT ![c] = "build_join_keyboard"]
    /\ UNCHANGED <<cfgVars, gate_keys, skip_stats, files, links, now, gates,
                   ev, nEv, bumps, sel, postVars, incs, hist>>

\* lines 151-170: the keyboard at st.offset is built and sent
GateRender(c) ==
    /\ pc[c] = "build_join_keyboard"
    /\ \E invite \in Invites :
         LET kb == build_join_keyboard(force_sub_targets, loc[c].user,
                       loc[c].st.offset, buttons_per_row, invite,
                       DoneData(loc[c].file), NoData, max_join_buttons)
         IN  gates' = gates \cup {[user |-> loc[c].user, kb |-> kb]}
    /\ pc' = [pc EXCEPT ![c] = "done"]
    /\ UNCHANGED <<cfgVars, storeVars, now, ev, nEv, loc, bumps, sel, postVars,
                   incs, hist>>

\* the store holds the row and the key of the user's unresolved gate for F1
InitDup ==
    /\ force_sub_targets \in {Prefix(n) : n \in 1..MaxTargets}
    /\ max_join_buttons \in 1..MaxK
    /\ buttons_per_row = 2
    /\ backend \in {"sqlite", "mongo"}
    /\ \E u \in Users :
         /\ user_state = (u :> DefaultRow)
         /\ gate_keys = (u :> "F1")
    /\ skip_stats = << >>
    /\ files = StoredFiles
    /\ links = StoredLinks
    /\ now = 1
    /\ gates = {}
    /\ ev = NoEv
    /\ nEv = 0
    /\ pc = [c \in Callers |-> "idle"]
    /\ loc = [c \in Callers |-> NoRun]
    /\ bumps = [u \in Users |-> 0]
    /\ sel = << >>
    /\ post_channel_ids = << >>
    /\ sessions = NoSessions
    /\ posted = << >>
    /\ incs = [h \in SkipHandles |-> 0]
    /\ hist = NoHist

NextDup ==
    \/ \E c \in Callers : Deliver(c)
    \/ \E c \in Callers : GateRead(c)
    \/ \E c \in Callers : GateIncSkip(c)
    \/ \E c \in Callers : GateBumpRead(c)
    \/ \E c \in Callers : GateBumpUpdate(c)
    \/ \E c \in Callers : GateBumpReread(c)
    \/ \E c \in Callers : GateSetKey(c)
    \/ \E c \in Callers : GateReget(c)
    \/ \E c \in Callers : GateRender(c)

SpecDup == InitDup /\ [][NextDup]_vars

\* the batch the abandoned gate was rendered from (offset 0)
PrevBatch ==
    {CheckChat(t) : t \in {force_sub_targets[i] : i \in
        {j \in 1..Len(force_sub_targets) :
            \E p \in 1..Len(_pick_visible_for_user(force_sub_targets, DupUser,
                                                   0, max_join_buttons).out) :
                _pick_visible_for_user(force_sub_targets, DupUser, 0,
                    max_join_buttons).out[p] = force_sub_targets[j]}}}

\* C22: two deliveries of the same redeem (stored last_gate_key "F1", new
\* gate key "F2"), processed concurrently against the shared store, account
\* the abandonment once: when both have finished, every skip counter of the
\* previous batch is 1 (it was 0), offset is 1 (it was 0) and last_gate_key
\* is the new key.
C22_AccountedOnce ==
    (/\ nEv = 2
     /\ Cardinality({c \in Callers : pc[c] = "done"}) = 2) =>
        /\ \A h \in PrevBatch : Skips(skip_stats, h) = 1
        /\ Offset(user_state, DupUser) = 1
        /\ LastGateKey(gate_keys, DupUser) = DupFile

-----------------------------------------------------------------------------
(* app.py: the post-selection menu (specification SpecPost).  An upload    *)
(* with POST_CHANNEL_IDS set opens a session under a new token; the menu   *)
(* buttons carry the token.  The menu message stays in the user's chat, so *)
(* its buttons can be pressed at any later time.                           *)

MaxChannels == 2
MaxPostEvents == 4

PostChannelPool == <<-2001, -2002, -2003>>

\* the tokens whose menu was sent to user u
Menus(u) == {t \in DOMAIN posted : posted[t].user = u}

\* user u presses the button of channel index idx on the menu of a token
cb_post_toggle(u) ==
    /\ nEv < MaxPostEvents
    /\ \E token \in Menus(u), idx \in 0..(Len(post_channel_ids) - 1) :
         LET base == [NoEv EXCEPT !.handler = "post_tgl", !.user = u,
                                  !.token = token]
         IN  IF token \notin DOMAIN sessions[u]
             THEN /\ ev' = [base EXCEPT !.notice = "session_expired"]
                  /\ UNCHANGED sessions
             ELSE /\ sessions' = [sessions EXCEPT ![u][token].sel =
                                    IF idx \in @ THEN @ \ {idx}
                                    ELSE @ \cup {idx}]
                  /\ ev' = base
    /\ nEv' = nEv + 1
    /\ UNCHANGED <<cfgVars, storeVars, now, gates, callerVars, sel, posted,
                   hist>>

\* user u presses "Kirim" on the menu of a token.  okSet: the channels whose
\* copy_message succeeds; editOk: whether q.edit_message_text succeeds (it is
\* awaited outside any try, before sessions.pop)
cb_post_send(u) ==
    /\ nEv < MaxPostEvents
    /\ \E token \in Menus(u) :
         LET base == [NoEv EXCEPT !.handler = "post_send", !.user = u,
                                  !.token = token]
         IN  IF token \notin DOMAIN sessions[u]
             THEN /\ ev' = [base EXCEPT !.notice = "session_expired"]
                  /\ UNCHANGED postVars
             ELSE IF sessions[u][token].sel = {}
             THEN /\ ev' = [base EXCEPT !.notice = "pick_one"]
                  /\ UNCHANGED postVars
             ELSE \E okSet \in SUBSET PostTargets(sessions[u][token].sel),
                     editOk \in BOOLEAN :
                  /\ posted' = [posted EXCEPT ![token].count =
                                  [ch \in DOMAIN @ |->
                                     IF ch \in okSet THEN @[ch] + 1 ELSE @[ch]]]
                  /\ sessions' = IF editOk THEN pop(sessions, u, token)
                                 ELSE sessions
                  /\ ev' = [base EXCEPT !.posts = okSet,
                                        !.notice = IF editOk THEN "sent"
                                                   ELSE "edit_failed"]
    /\ nEv' = nEv + 1
    /\ UNCHANGED <<cfgVars, storeVars, now, gates, callerVars, sel, hist>>

\* user u presses "Batal" on the menu of a token
cb_post_cancel(u) ==
    /\ nEv < MaxPostEvents
    /\ \E token \in Menus(u) :
         /\ sessions' = pop(sessions, u, token)
         /\ ev' = [NoEv EXCEPT !.handler = "post_cancel", !.user = u,
                               !.token = token, !.notice = "cancelled"]
    /\ nEv' = nEv + 1
    /\ UNCHANGED <<cfgVars, storeVars, now, gates, callerVars, sel, posted,
                   hist>>

\* a new database, POST_CHANNEL_IDS set
InitPost ==
    /\ force_sub_targets = Prefix(1)
    /\ max_join_buttons = 1
    /\ buttons_per_row = 2
    /\ backend = "sqlite"
    /\ user_state = << >>
    /\ gate_keys = << >>
    /\ skip_stats = << >>
    /\ files = << >>
    /\ links = << >>
    /\ now = 1
    /\ gates = {}
    /\ ev = NoEv
    /\ nEv = 0
    /\ pc = << >>
    /\ loc = << >>
    /\ bumps = << >>
    /\ sel = << >>
    /\ incs = << >>
    /\ hist = NoHist
    /\ post_channel_ids \in {SubSeq(PostChannelPool, 1, n) : n \in 1..MaxChannels}
    /\ sessions = NoSessions
    /\ posted = << >>

NextPost ==
    \/ \E u \in Users : save_file(u)
    \/ \E u \in Users : cb_post_toggle(u)
    \/ \E u \in Users : cb_post_send(u)
    \/ \E u \in Users : cb_post_cancel(u)

SpecPost == InitPost /\ [][NextPost]_vars

\* C26: for every token the media is copied to a channel at most once.  A
\* cb_post_send that has posted, and every cb_post_cancel, removes the
\* session; a toggle or send for a token without session answers
\* "Session expired", posts nothing and changes no session; a send with an
\* empty selection posts nothing and keeps the session.
C26_PostedAtMostOnce ==
    [][/\ \A t \in DOMAIN posted' : \A ch \in DOMAIN posted'[t].count :
            posted'[t].count[ch] <= 1
       /\ \A u \in Users :
            /\ (Ran("post_send", u) /\ ev'.posts # {}) =>
                  ev'.token \notin DOMAIN sessions'[u]
            /\ Ran("post_cancel", u) =>
                  ev'.token \notin DOMAIN sessions'[u]
            /\ ((Ran("post_tgl", u) \/ Ran("post_send", u))
                    /\ ev'.token \notin DOMAIN sessions[u]) =>
                  /\ ev'.notice = "session_expired"
                  /\ ev'.posts = {}
                  /\ posted' = posted
                  /\ sessions' = sessions
            /\ (/\ Ran("post_send", u)
                /\ ev'.token \in DOMAIN sessions[u]
                /\ sessions[u][ev'.token].sel = {}) =>
                  /\ ev'.posts = {}
                  /\ posted' = posted
                  /\ sessions' = sessions
      ]_vars

-----------------------------------------------------------------------------
(* The pure functions of fsub.py applied to drawn inputs (specifications    *)
(* SpecSelect and SpecJoined).  force_sub_targets is the one list object of *)
(* the configuration that every call is handed.                             *)

NoCall == [user |-> 0, offset |-> 0, k |-> 0, targets |-> <<>>, out |-> <<>>]
NoJoined == [ans |-> <<>>, ok |-> FALSE, queried |-> 0]
NoSplit == [raw |-> <<>>, out |-> <<<<>>, NoUrl>>]

\* target lists: the prefixes of the pool and the lists over two of its
\* entries (entries may repeat)
TargetLists ==
    {Prefix(n) : n \in 0..MaxTargets} \cup
    UNION {[1..n -> {TargetPool[1], TargetPool[3]}] : n \in 1..MaxTargets}

InitPure ==
    /\ force_sub_targets \in TargetLists
    /\ max_join_buttons = MaxK
    /\ buttons_per_row = 2
    /\ backend = "sqlite"
    /\ user_state = << >>
    /\ gate_keys = << >>
    /\ skip_stats = << >>
    /\ files = StoredFiles
    /\ links = StoredLinks
    /\ now = 1
    /\ gates = {}
    /\ ev = NoEv
    /\ nEv = 0
    /\ pc = << >>
    /\ loc = << >>
    /\ bumps = << >>
    /\ sel = [n |-> 0, cfg |-> force_sub_targets, probe |-> NoCall,
              last |-> NoCall, again |-> FALSE, joined |-> NoJoined,
              split |-> NoSplit]
    /\ incs = << >>
    /\ hist = NoHist
    /\ post_channel_ids = << >>
    /\ sessions = NoSessions
    /\ posted = << >>

\* one call _pick_visible_for_user(CFG.force_sub_targets, u, off, k)
Pick(u, off, k) ==
    /\ sel.n < MaxSelCalls
    /\ \E r \in {_pick_visible_for_user(force_sub_targets, u, off, k)} :
         LET call == [user |-> u, offset |-> off, k |-> k,
                      targets |-> force_sub_targets, out |-> r.out]
         IN  /\ force_sub_targets' = r.targets
             /\ sel' = [sel EXCEPT
                          !.n = @ + 1,
                          !.last = call,
                          !.probe = IF sel.n = 0 THEN call ELSE @,
                          !.again = /\ sel.n > 1
                                    /\ sel.probe.user = u
                                    /\ sel.probe.offset = off
                                    /\ sel.probe.k = k]
    /\ UNCHANGED <<max_join_buttons, buttons_per_row, backend,
                   post_channel_ids, storeVars, now, postVars, gates, ev, nEv,
                   callerVars, hist>>

NextSelect ==
    \E u \in Users, off \in 0..MaxSelOffset, k \in 0..(MaxK + 1) : Pick(u, off, k)

SpecSelect == InitPure /\ [][NextSelect]_vars

\* one call is_user_joined_all(context, user_id, CFG.force_sub_targets) with
\* the transport answering ans[i] for targets[i]
JoinedAll(ans) ==
    /\ sel.n < MaxSelCalls
    /\ \E j \in {is_user_joined_all(force_sub_targets, ans)} :
         sel' = [sel EXCEPT !.n = @ + 1,
                            !.joined = [ans |-> ans, ok |-> j.ok,
                                        queried |-> j.queried]]
    /\ UNCHANGED <<cfgVars, storeVars, now, postVars, gates, ev, nEv,
                   callerVars, hist>>

NextJoined ==
    \E ans \in [1..Len(force_sub_targets) -> Status] : JoinedAll(ans)

SpecJoined == InitPure /\ [][NextJoined]_vars

\* C2: for a non-empty target list, if the membership query of at least one
\* target, at whatever position, raises an error or answers "left" or
\* "kicked", is_user_joined_all returns false whatever the other targets answer.
C2_AnyDeniedGivesFalse ==
    (/\ sel.n > 0
     /\ force_sub_targets # <<>>
     /\ \E i \in DOMAIN sel.joined.ans : sel.joined.ans[i] \in Denied)
        => ~sel.joined.ok

\* the last target alone answers "kicked"
C2_Witness ==
    /\ sel.n > 0 /\ Len(force_sub_targets) >= 2 /\ ~sel.joined.ok
    /\ sel.joined.ans[Len(force_sub_targets)] = "kicked"
    /\ \A i \in 1..(Len(force_sub_targets) - 1) : sel.joined.ans[i] = "member"

\* the raw strings of the specification's parsing scenario
RawIdUrl ==
    <<"-", "1", "0", "0", "5", "5", "5", "|", "h", "t", "t", "p", "s", ":",
      "/", "/", "t", ".", "m", "e", "/", "+", "a", "b", "c">>
RawPub == <<"@", "p", "u", "b">>
RawId == <<"-", "1", "0", "0", "5", "5", "5">>

\* FORCE_SUB<i> values as _collect_force_sub hands them on: _getenv has
\* stripped them and an empty value ends the list
SplitAlphabet == {"@", "|", " ", "a"}
SplitInputs ==
    {s \in UNION {[1..n -> SplitAlphabet] : n \in 1..MaxSplitLen} :
        s[1] # " " /\ s[Len(s)] # " "}
    \cup {RawIdUrl, RawPub, RawId}

\* one call _split_target(raw)
Split(raw) ==
    /\ sel.n < MaxSelCalls
    /\ sel' = [sel EXCEPT !.n = @ + 1,
                          !.split = [raw |-> raw, out |-> _split_target(raw)]]
    /\ UNCHANGED <<cfgVars, storeVars, now, postVars, gates, ev, nEv,
                   callerVars, hist>>

NextSplit == \E raw \in SplitInputs : Split(raw)

SpecSplit == InitPure /\ [][NextSplit]_vars

\* t is x without its leading and trailing blanks
IsTrimOf(t, x) ==
    \E i \in 1..(Len(x) + 1), j \in 0..Len(x) :
        /\ t = SubSeq(x, i, j)
        /\ \A h \in 1..(i - 1) : x[h] = " "
        /\ \A h \in (j + 1)..Len(x) : x[h] = " "
        /\ t # <<>> => (t[1] # " " /\ t[Len(t)] # " ")

\* s = a | b with no "|" in a
SplitsAtFirstBar(s, a, b) ==
    \E p \in 1..Len(s) :
        /\ s[p] = "|"
        /\ \A h \in 1..(p - 1) : s[h] # "|"
        /\ IsTrimOf(a, SubSeq(s, 1, p - 1))
        /\ IsTrimOf(b, SubSeq(s, p + 1, Len(s)))

HasBar(s) == \E p \in 1..Len(s) : s[p] = "|"

\* r is s without its whole run of leading "@"
WithoutLeadingAts(r, s) ==
    \E m \in 0..Len(s) :
        /\ \A h \in 1..m : s[h] = "@"
        /\ m < Len(s) => s[m + 1] # "@"
        /\ r = SubSeq(s, m + 1, Len(s))

ScenarioParses ==
    /\ sel.split.raw = RawIdUrl =>
          sel.split.out = <<RawId, SubSeq(RawIdUrl, 9, Len(RawIdUrl))>>
    /\ sel.split.raw = RawPub =>
          sel.split.out = <<RawPub, <<"https://t.me/", "p", "u", "b">> >>
    /\ sel.split.raw = RawId => sel.split.out = <<RawId, NoUrl>>

\* C11 as stated: the rules apply in order: a string with "|" is split once
\* at the first "|" into the trimmed left and right parts; otherwise a string
\* starting with "@" yields the string and the public URL built from the
\* handle without the leading "@" (the one character); otherwise the string
\* and null.
C11_SplitRulesAsStated ==
    sel.split # NoSplit =>
        LET s == sel.split.raw
            out == sel.split.out
        IN  /\ HasBar(s) => SplitsAtFirstBar(s, out[1], out[2])
            /\ (~HasBar(s) /\ s[1] = "@") =>
                  out = <<s, <<"https://t.me/">> \o Tail(s)>>
            /\ (~HasBar(s) /\ s[1] # "@") => out = <<s, NoUrl>>
            /\ ScenarioParses

\* C11 (amended): as above, but the URL of a string starting with "@" is
\* built from the string without all of its leading "@" characters.
C11_SplitRules ==
    sel.split # NoSplit =>
        LET s == sel.split.raw
            out == sel.split.out
        IN  /\ HasBar(s) => SplitsAtFirstBar(s, out[1], out[2])
            /\ (~HasBar(s) /\ s[1] = "@") =>
                  /\ out[1] = s
                  /\ \E r \in {SubSeq(s, m, Len(s)) : m \in 2..(Len(s) + 1)} :
                        /\ WithoutLeadingAts(r, s)
                        /\ out[2] = <<"https://t.me/">> \o r
            /\ (~HasBar(s) /\ s[1] # "@") => out = <<s, NoUrl>>
            /\ ScenarioParses

\* the second of two "|" stays in the right part
C11_Witness ==
    /\ sel.split.raw = <<"a", "|", "|">>
    /\ sel.split.out = << <<"a">>, <<"|">> >>

SameInputs(a, b) == a.user = b.user /\ a.offset = b.offset /\ a.k = b.k

\* C9: a call of _pick_visible_for_user on the configured list with the
\* user_id, offset and k of the first call returns the sequence the first call
\* returned, whatever calls were made in between, and no call changes the
\* configured list.
C9_SelectDeterministic ==
    /\ force_sub_targets = sel.cfg
    /\ (sel.n > 0 /\ SameInputs(sel.last, sel.probe)) => sel.last.out = sel.probe.out

C9_Witness ==
    /\ sel.n = 3 /\ sel.again
    /\ Len(force_sub_targets) >= 3
    /\ sel.last.out # SubSeq(force_sub_targets, 1, Len(sel.last.out))

IsPrefixOfPermutation(out, targets) ==
    \E p \in [1..Len(out) -> 1..Len(targets)] :
        /\ \A i, j \in 1..Len(out) : i # j => p[i] # p[j]
        /\ \A i \in 1..Len(out) : out[i] = targets[p[i]]

\* C10: for every target list and k >= 1 the selection has length
\* min(k, |targets|) and its elements come from distinct positions of the
\* list; for the empty list it is empty.
C10_SelectLengthAndMembers ==
    (sel.n > 0 /\ sel.last.k >= 1) =>
        /\ Len(sel.last.out) = Min(sel.last.k, Len(sel.last.targets))
        /\ IsPrefixOfPermutation(sel.last.out, sel.last.targets)
        /\ sel.last.targets = <<>> => sel.last.out = <<>>

C10_Witness ==
    /\ sel.n > 0 /\ sel.last.k = 2 /\ Len(sel.last.targets) = 3
    /\ Len(sel.last.out) = 2
    /\ sel.last.out # SubSeq(sel.last.targets, 1, 2)

====
